---- MODULE Spec2Model ----
(***************************************************************************)
(* A model of dqc_validation.py (XBRL US Data Quality Committee rules):    *)
(* the numeric comparator, the message/error builder and the validate      *)
(* driver with its seven rule families.                                    *)
(*                                                                         *)
(* Strings are sequences of tokens: the characters the code scans for      *)
(* ("$", "{", "}", ".", ":", "|", " ") are tokens of their own, every      *)
(* other token stands for a run of ordinary characters.                    *)
(* Decimal numbers are records [coef, exp] standing for coef * 10^exp, as  *)
(* Python's decimal.Decimal stores them.                                   *)
(***************************************************************************)
EXTENDS Integers, Sequences, FiniteSets, TLC

VARIABLES
    instance,       \* the XBRL instance handed to validate: facts and DTS
    params,         \* job.script_params: the suppressErrors string
    msg_templates,  \* dqc_msg_templates.json: rule code -> template record
    dqc_0006_period_focus_durations, \* focus value -> <<min, max>> days
    dqc_0009_facts, \* rows <<rule_id, prefix1, name1, prefix2, name2>>
    dqc_0015_facts, \* rows <<rule_id, prefix, name>>
    dqc_0015_member_exclusions, \* member-exclusion expression trees
    suppress_errors,\* the set built at the start of validate
    namespaces,     \* prefix -> namespace, built at the start of validate
    error_log,      \* the diagnostic sink (job.error_log)
    pc,             \* position of the validate driver
    raised,         \* the exception that aborted the run, or NoError
    call,           \* a pending call of one of the pure functions
    ret             \* its result (or the state of its loop)

vars == <<instance, params, msg_templates, dqc_0006_period_focus_durations,
          dqc_0009_facts, dqc_0015_facts, dqc_0015_member_exclusions,
          suppress_errors, namespaces, error_log, pc, raised, call, ret>>

(***************************************************************************)
(* Bounds of the model.                                                    *)
(***************************************************************************)
MaxFacts == 2

(***************************************************************************)
(* Python string and list primitives, on token sequences (0-based).        *)
(***************************************************************************)
Min2(a, b) == IF a <= b THEN a ELSE b
Max2(a, b) == IF a >= b THEN a ELSE b

\* s[a:b] with a >= 0 and b any integer (a negative b counts from the end)
Slice(s, a, b) ==
    LET n  == Len(s)
        hi == IF b < 0 THEN Max2(n + b, 0) ELSE Min2(b, n)
        lo == Min2(a, n)
    IN  IF lo >= hi THEN <<>> ELSE SubSeq(s, lo + 1, hi)

\* s[a:]
SliceFrom(s, a) == Slice(s, a, Len(s))

\* s.find(c, start) for a one-character c: lowest 0-based index or -1
Find1(s, c, start) ==
    LET hits == {i \in start .. Len(s) - 1 : s[i + 1] = c}
    IN  IF hits = {} THEN -1 ELSE CHOOSE i \in hits : \A j \in hits : i <= j

\* s.find(c1 c2, start) for a two-character needle
Find2(s, c1, c2, start) ==
    LET hits == {i \in start .. Len(s) - 2 : s[i + 1] = c1 /\ s[i + 2] = c2}
    IN  IF hits = {} THEN -1 ELSE CHOOSE i \in hits : \A j \in hits : i <= j

\* s.split(c): the pieces between the occurrences of c (always >= 1 piece)
RECURSIVE Split(_, _)
Split(s, c) ==
    LET i == Find1(s, c, 0)
    IN  IF i = -1 THEN <<s>>
        ELSE <<Slice(s, 0, i)>> \o Split(SliceFrom(s, i + 1), c)

\* s.rsplit(c, 1)[0]: everything before the last c, or s when there is none
RSplit1Head(s, c) ==
    LET hits == {i \in 1 .. Len(s) : s[i] = c}
    IN  IF hits = {} THEN s
        ELSE SubSeq(s, 1, (CHOOSE i \in hits : \A j \in hits : i >= j) - 1)

\* s.replace(a, b) for one-character a, b
Replace(s, a, b) == [i \in 1 .. Len(s) |-> IF s[i] = a THEN b ELSE s[i]]

\* s.strip(): leading and trailing whitespace removed
RECURSIVE Strip(_)
Strip(s) ==
    IF s = <<>> THEN s
    ELSE IF Head(s) = " " THEN Strip(Tail(s))
    ELSE IF s[Len(s)] = " " THEN Strip(SubSeq(s, 1, Len(s) - 1))
    ELSE s

\* ''.join(parts)
RECURSIVE Join(_)
Join(parts) == IF parts = <<>> THEN <<>> ELSE Head(parts) \o Join(Tail(parts))

\* s.endswith(t)
EndsWith(s, t) ==
    Len(t) <= Len(s) /\ SubSeq(s, Len(s) - Len(t) + 1, Len(s)) = t

(***************************************************************************)
(* decimal.Decimal arithmetic on [coef, exp] records.                      *)
(***************************************************************************)
RECURSIVE Pow10(_)
Pow10(n) == IF n <= 0 THEN 1 ELSE 10 * Pow10(n - 1)

Dec(c, e) == [coef |-> c, exp |-> e]

\* the integer x / 10^e, for e <= x.exp
AtExp(x, e) == x.coef * Pow10(x.exp - e)

DecLe(x, y) ==
    LET e == Min2(x.exp, y.exp) IN AtExp(x, e) <= AtExp(y, e)

DecEq(x, y) ==
    LET e == Min2(x.exp, y.exp) IN AtExp(x, e) = AtExp(y, e)

DecLt(x, y) == DecLe(x, y) /\ ~DecEq(x, y)

DecSub(x, y) ==
    LET e == Min2(x.exp, y.exp) IN Dec(AtExp(x, e) - AtExp(y, e), e)

DecAbs(x) == Dec(IF x.coef < 0 THEN -x.coef ELSE x.coef, x.exp)

\* Decimal.scaleb(n)
ScaleB(x, n) == Dec(x.coef, x.exp + n)

\* n / u rounded to the nearest integer, ties upwards (u > 0)
HalfUp(n, u) ==
    LET q == n \div u
        r == n % u
    IN  IF 2 * r < u THEN q ELSE q + 1

\* n / u rounded to the nearest integer, ties to the even one (u > 0)
HalfEven(n, u) ==
    LET q == n \div u
        r == n % u
    IN  IF 2 * r < u THEN q
        ELSE IF 2 * r > u THEN q + 1
        ELSE IF q % 2 = 0 THEN q ELSE q + 1

\* quantize(1) with ties rounded upwards
QuantizeHalfUp(x) ==
    IF x.exp >= 0 THEN x ELSE Dec(HalfUp(x.coef, Pow10(-x.exp)), 0)

\* Decimal.quantize(1, decimal.ROUND_HALF_EVEN): an integral value.  A value
\* whose exponent is not negative is integral already and keeps its value.
QuantizeHalfEven(x) ==
    IF x.exp >= 0 THEN x ELSE Dec(HalfEven(x.coef, Pow10(-x.exp)), 0)

(***************************************************************************)
(* The numeric comparator.                                                 *)
(***************************************************************************)
\* float('inf'): the decimals of a fact declared with decimals="INF";
\* larger than every finite decimals
INF == 1000

\* an optional argument: <<>> is None, <<d>> is d
None == <<>>
Some(d) == <<d>>

\* the rounding expression of decimal_comparison
\*   v.scaleb(decimals).quantize(1,decimal.ROUND_HALF_EVEN).scaleb(-decimals)
round_to_decimals(v, decimals) ==
    ScaleB(QuantizeHalfEven(ScaleB(v, decimals)), -decimals)

\* equal_within_tolerance with < in place of <=
equal_within_tolerance_strict(val1, val2, decimals) ==
    IF decimals = None THEN DecEq(val1, val2)
    ELSE DecLt(DecAbs(DecSub(val1, val2)), ScaleB(Dec(2, 0), -decimals[1]))

equal_within_tolerance(val1, val2, decimals) ==
    IF decimals = None THEN DecEq(val1, val2)
    ELSE DecLe(DecAbs(DecSub(val1, val2)), ScaleB(Dec(2, 0), -decimals[1]))

less_or_equal(val1, val2, decimals) == DecLe(val1, val2)

\* cmp(...) with the tolerance left out: equality is exact
ApplyCmpExact(cmp, val1, val2, decimals) ==
    IF cmp = "equal_within_tolerance"
    THEN equal_within_tolerance(val1, val2, None)
    ELSE less_or_equal(val1, val2, decimals)


\* cmp(...) for the two comparison policies passed to decimal_comparison
ApplyCmp(cmp, val1, val2, decimals) ==
    IF cmp = "equal_within_tolerance"
    THEN equal_within_tolerance(val1, val2, decimals)
    ELSE less_or_equal(val1, val2, decimals)

\* decimal_comparison without the rounding of the two values
decimal_comparison_unrounded(fact1, fact2, cmp) ==
    LET decimals == Min2(fact1.decimals, fact2.decimals)
    IN  IF decimals = INF
        THEN ApplyCmp(cmp, fact1.numeric_value, fact2.numeric_value, None)
        ELSE ApplyCmp(cmp, fact1.numeric_value, fact2.numeric_value,
                      Some(decimals))

decimal_comparison(fact1, fact2, cmp) ==
    LET decimals == Min2(fact1.decimals, fact2.decimals)
    IN  IF decimals = INF
        THEN ApplyCmp(cmp, fact1.numeric_value, fact2.numeric_value, None)
        ELSE LET val1 == round_to_decimals(fact1.numeric_value, decimals)
                 val2 == round_to_decimals(fact2.numeric_value, decimals)
             IN  ApplyCmp(cmp, val1, val2, Some(decimals))

(***************************************************************************)
(* Temporal utilities.  A datetime is [day, secs]: days since 1970-01-01   *)
(* and seconds since midnight.                                             *)
(***************************************************************************)
DateTime(d, s) == [day |-> d, secs |-> s]

\* datetime.datetime.max, later than every date of a document
DateTimeMax == DateTime(2932896, 86399)

\* sys.maxsize
MaxSize == 2147483647

DtLe(a, b) == a.day < b.day \/ (a.day = b.day /\ a.secs <= b.secs)
DtLt(a, b) == a.day < b.day \/ (a.day = b.day /\ a.secs < b.secs)

\* (a - b).days: the timedelta is normalised so that 0 <= seconds < 86400
DeltaDays(a, b) == (a.day - b.day) + (IF a.secs < b.secs THEN -1 ELSE 0)

\* the proleptic Gregorian date <<year, month, day>> of a day number
CivilYMD(y0, mp, doy) ==
    <<y0 + (IF mp < 10 THEN 0 ELSE 1),
      IF mp < 10 THEN mp + 3 ELSE mp - 9,
      doy - (153 * mp + 2) \div 5 + 1>>

CivilOfYear(era, yoe, doy) ==
    CivilYMD(yoe + era * 400, (5 * doy + 2) \div 153, doy)

CivilOfEra(era, doe, yoe) ==
    CivilOfYear(era, yoe, doe - (365 * yoe + yoe \div 4 - yoe \div 100))

CivilOfDoe(era, doe) ==
    CivilOfEra(era, doe,
               (doe - doe \div 1460 + doe \div 36524 - doe \div 146096) \div 365)

CivilOfZ(z, era) == CivilOfDoe(era, z - era * 146097)

CivilFromDays(n) == CivilOfZ(n + 719468, (n + 719468) \div 146097)

\* '%02d' % n
Pad2(n) == IF n < 10 THEN "0" \o ToString(n) ELSE ToString(n)

\* val.strftime('%Y-%m-%d') and val.strftime('%H:%M:%S')
StrfCivil(c) == <<ToString(c[1]), "-", Pad2(c[2]), "-", Pad2(c[3])>>

StrfDate(day) == StrfCivil(CivilFromDays(day))

StrfTime(secs) ==
    <<Pad2(secs \div 3600), ":", Pad2((secs % 3600) \div 60), ":",
      Pad2(secs % 60)>>

period_end(fact) ==
    IF fact.period.type = "START_END" THEN fact.period.end
    ELSE IF fact.period.type = "INSTANT" THEN fact.period.end
    ELSE DateTimeMax

period_duration(fact) ==
    IF fact.period.type = "START_END"
    THEN DeltaDays(fact.period.end, fact.period.start)
    ELSE IF fact.period.type = "INSTANT" THEN 0
    ELSE MaxSize

\* datetime.datetime.min: 0001-01-01T00:00:00
DateTimeMin == DateTime(-719162, 0)

\* the string a call returns, or the exception it raises
Formatted(text) == [exc |-> "", text |-> text]
FormatRaise(exc) == [exc |-> exc, text |-> <<>>]

\* format_date without the step back for an end date
format_date_same_day(val, is_end) ==
    IF val.secs # 0
    THEN Formatted(StrfDate(val.day) \o <<" ">> \o StrfTime(val.secs))
    ELSE Formatted(StrfDate(val.day))

\* format_date(val,is_end): `val -= datetime.timedelta(days=1)` raises
\* OverflowError when the day before is earlier than datetime.min
format_date(val, is_end) ==
    IF val.secs # 0
    THEN Formatted(StrfDate(val.day) \o <<" ">> \o StrfTime(val.secs))
    ELSE IF is_end
    THEN IF val.day - 1 < DateTimeMin.day THEN FormatRaise("OverflowError")
         ELSE Formatted(StrfDate(val.day - 1))
    ELSE Formatted(StrfDate(val.day))

(***************************************************************************)
(* Names and labels.                                                       *)
(***************************************************************************)
\* str(qname) of a fact or concept x: [prefix:]name
prefixed_name(x) ==
    IF x.prefix # "" THEN <<x.prefix, ":", x.name>> ELSE <<x.name>>

\* the first English standard label, or the prefixed name when there is none
label(x) ==
    IF x.labels # <<>> THEN <<x.labels[1]>> ELSE prefixed_name(x)

(***************************************************************************)
(* The message builder, create_error.                                      *)
(* An argument of kargs is [kind |-> "Fact", fact |-> f],                  *)
(* [kind |-> "Concept", concept |-> c], [kind |-> "RuleInfo", info |-> r]  *)
(* or [kind |-> "Scalar", str |-> tokens].                                 *)
(* xbrl.Error.Param(text, location=..) is [key, text, loc]; loc is the id  *)
(* of the fact the parameter points at, 0 when it points at none.          *)
(***************************************************************************)
Param(key, text, loc) == [key |-> key, text |-> text, loc |-> loc]

Ok(parts, ps) == [exc |-> "", what |-> <<>>, parts |-> parts, params |-> ps]
Raise(exc, what) == [exc |-> exc, what |-> what, parts |-> <<>>, params |-> {}]

\* '{%s}' % param and '{%s:value}' % param
Braced(param) == <<"{">> \o param \o <<"}">>
BracedValue(param) == <<"{">> \o param \o <<":value}">>

\* xbrl.Error.Param(format_date(val,is_end),location=..)
DateParam(key, val, is_end, loc) ==
    Param(key, format_date(val, is_end).text, loc)

\* the parts and the date parameters of a period placeholder, or the
\* exception of the first format_date call that raises
OkDates(parts, dates) ==
    IF \E d \in dates : format_date(d.val, d.is_end).exc # ""
    THEN Raise("OverflowError", <<"date value out of range">>)
    ELSE Ok(parts, {DateParam(d.key, d.val, d.is_end, d.loc) : d \in dates})

DateArg(key, val, is_end, loc) ==
    [key |-> key, val |-> val, is_end |-> is_end, loc |-> loc]

\* ${x.period...} for Fact x.  period.start_date, period.end_date and
\* period.instant are None when the period has no such date.
ResolvePeriod(param, param_parts, fact) ==
    LET period == fact.period
    IN  IF Len(param_parts) > 2
        THEN IF param_parts[3] = <<"startDate">>
             THEN IF period.type # "START_END"
                  THEN Raise("AttributeError", <<"start_date">>)
                  ELSE OkDates(<<BracedValue(param)>>,
                          {DateArg(param, period.start, FALSE, fact.id)})
             ELSE IF param_parts[3] = <<"endDate">>
             THEN IF period.type = "FOREVER"
                  THEN Raise("AttributeError", <<"end_date">>)
                  ELSE OkDates(<<BracedValue(param)>>,
                          {DateArg(param, period.end, TRUE, fact.id)})
             ELSE IF param_parts[3] = <<"instant">>
             THEN IF period.type # "INSTANT"
                  THEN Raise("AttributeError", <<"instant">>)
                  ELSE OkDates(<<BracedValue(param)>>,
                          {DateArg(param, period.end, TRUE, fact.id)})
             ELSE IF param_parts[3] = <<"durationDays">>
             THEN Ok(<<Braced(param)>>,
                     {Param(param, <<ToString(period_duration(fact))>>, 0)})
             ELSE Raise("KeyError", <<"Unknown period property ">> \o param_parts[3])
        ELSE IF period.type = "INSTANT"
             THEN OkDates(<<BracedValue(param \o <<".instant">>)>>,
                     {DateArg(param \o <<".instant">>, period.end, TRUE, fact.id)})
             ELSE IF period.type = "START_END"
             THEN OkDates(<<BracedValue(param \o <<".startDate">>) \o <<" - ">>
                         \o BracedValue(param \o <<".endDate">>)>>,
                     {DateArg(param \o <<".startDate">>, period.start, FALSE,
                                fact.id),
                      DateArg(param \o <<".endDate">>, period.end, TRUE,
                                fact.id)})
             ELSE Ok(<<<<"forever">>>>, {})

\* ', '.join('{%s.dim%d} = {%s.member%d}' ...) over the dimension aspects
RECURSIVE DimensionsText(_, _, _)
DimensionsText(param, n, i) ==
    IF i >= n THEN <<>>
    ELSE (IF i > 0 THEN <<", ">> ELSE <<>>)
         \o Braced(param \o <<".dim" \o ToString(i)>>) \o <<" = ">>
         \o Braced(param \o <<".member" \o ToString(i)>>)
         \o DimensionsText(param, n, i + 1)

ResolveDimensions(param, fact) ==
    LET aspects == fact.dims
    IN  IF aspects # <<>>
        THEN Ok(<<DimensionsText(param, Len(aspects), 0)>>,
                UNION {{Param(param \o <<".dim" \o ToString(i - 1)>>,
                              <<aspects[i].dim>>, 0),
                        Param(param \o <<".member" \o ToString(i - 1)>>,
                              <<aspects[i].member>>, 0)}
                       : i \in 1 .. Len(aspects)})
        ELSE Ok(<<<<"none">>>>, {})

\* ' '.join('{%s.num%d:value}' ...) over measures
RECURSIVE MeasuresText(_, _, _, _)
MeasuresText(param, tag, n, i) ==
    IF i >= n THEN <<>>
    ELSE (IF i > 0 THEN <<" ">> ELSE <<>>)
         \o BracedValue(param \o <<tag \o ToString(i)>>)
         \o MeasuresText(param, tag, n, i + 1)

MeasureParams(param, tag, measures, fid) ==
    {Param(param \o <<tag \o ToString(i - 1)>>, <<measures[i]>>, fid)
     : i \in 1 .. Len(measures)}

ResolveUnit(param, fact) ==
    IF fact.unit.present
    THEN LET numerator   == fact.unit.numerator
             denominator == fact.unit.denominator
         IN  Ok(<<MeasuresText(param, ".num", Len(numerator), 0)>>
                  \o (IF Len(denominator) # 0
                      THEN <<<<" / ">>,
                             MeasuresText(param, ".denom", Len(denominator), 0)>>
                      ELSE <<>>),
                MeasureParams(param, ".num", numerator, fact.id)
                  \cup MeasureParams(param, ".denom", denominator, fact.id))
    ELSE Ok(<<<<"none">>>>, {})

\* the isinstance(..., xbrl.Fact) branch, after the optional 'fact' part has
\* been deleted from param_parts
ResolveFactProperty(param, param_parts, fact) ==
    IF Len(param_parts) < 2 THEN Raise("IndexError", <<"list index out of range">>)
    ELSE LET prop == param_parts[2]
         IN  IF prop = <<"name">>
             THEN Ok(<<Braced(param)>>, {Param(param, prefixed_name(fact), fact.id)})
             ELSE IF prop = <<"localName">>
             THEN Ok(<<Braced(param)>>, {Param(param, <<fact.name>>, fact.id)})
             ELSE IF prop = <<"label">>
             THEN Ok(<<Braced(param)>>, {Param(param, label(fact), fact.id)})
             ELSE IF prop = <<"value">>
             THEN Ok(<<BracedValue(param)>>,
                     {Param(param,
                            IF fact.nil THEN <<"nil">>
                            ELSE IF fact.numeric
                            THEN <<ToString(fact.numeric_value.coef), "E",
                                   ToString(fact.numeric_value.exp)>>
                            ELSE fact.normalized_value,
                            fact.id)})
             ELSE IF prop = <<"period">>
             THEN ResolvePeriod(param, param_parts, fact)
             ELSE IF prop = <<"dimensions">>
             THEN ResolveDimensions(param, fact)
             ELSE IF prop = <<"unit">>
             THEN ResolveUnit(param, fact)
             ELSE IF prop = <<"decimals">>
             THEN Ok(<<Braced(param)>>,
                     {Param(param, <<ToString(fact.decimals)>>, fact.id)})
             ELSE Raise("KeyError", <<"Unknown fact property ">> \o prop)

\* `if param_parts[1] == 'fact': del param_parts[1]`
DropFactPart(param_parts) ==
    IF Len(param_parts) >= 2 /\ param_parts[2] = <<"fact">>
    THEN <<param_parts[1]>> \o SubSeq(param_parts, 3, Len(param_parts))
    ELSE param_parts

ResolveFact(param, param_parts, fact) ==
    ResolveFactProperty(param, DropFactPart(param_parts), fact)

\* the isinstance(..., xbrl.taxonomy.Concept) branch: it has no else
ResolveConcept(param, param_parts, concept) ==
    IF Len(param_parts) < 2 THEN Raise("IndexError", <<"list index out of range">>)
    ELSE LET prop == param_parts[2]
         IN  IF prop = <<"name">>
             THEN Ok(<<Braced(param)>>, {Param(param, prefixed_name(concept), 0)})
             ELSE IF prop = <<"localName">>
             THEN Ok(<<Braced(param)>>, {Param(param, <<concept.name>>, 0)})
             ELSE IF prop = <<"label">>
             THEN Ok(<<Braced(param)>>, {Param(param, label(concept), 0)})
             ELSE Ok(<<>>, {})

\* the branches on the type of the argument
ResolveArg(param, param_parts, arg) ==
    IF arg.kind = "Fact"
    THEN ResolveFact(param, param_parts, arg.fact)
    ELSE IF arg.kind = "Concept"
    THEN ResolveConcept(param, param_parts, arg.concept)
    ELSE IF arg.kind = "RuleInfo"
    THEN Ok(<<Braced(param)>>, {Param(param, <<arg.info.ruleVersion>>, 0)})
    ELSE Ok(<<Braced(param)>>, {Param(param, arg.str, 0)})

ResolveParts(param, param_parts, kargs) ==
    IF param_parts[1] \notin DOMAIN kargs
    THEN Raise("KeyError", <<"Missing value for parameter ">> \o param_parts[1])
    ELSE ResolveArg(param, param_parts, kargs[param_parts[1]])

\* one placeholder: the body of the while loop from the split to the branches
ResolvePlaceholder(rawparam, kargs) ==
    ResolveParts(Replace(rawparam, ":", "_"), Split(rawparam, "."), kargs)

\* the state of the scanning loop
ScanInit ==
    [text_start |-> 0, msg_parts |-> <<>>, msg_params |-> {},
     status |-> "scan", exc |-> "", what |-> <<>>]

\* the end of an iteration: the placeholder resolved to r, or raised
ScanResolved(st, parts1, param_end, r) ==
    IF r.exc # ""
    THEN [st EXCEPT !.msg_parts = parts1, !.status = "raise",
                    !.exc = r.exc, !.what = r.what]
    ELSE [st EXCEPT !.msg_parts = parts1 \o r.parts,
                    !.msg_params = @ \cup r.params,
                    !.text_start = param_end + 1]

\* an iteration that found '${' at param_start
ScanPlaceholder(msg, kargs, st, param_start, param_end) ==
    ScanResolved(st,
                 IF st.text_start < param_start
                 THEN st.msg_parts \o <<Slice(msg, st.text_start, param_start)>>
                 ELSE st.msg_parts,
                 param_end,
                 ResolvePlaceholder(Slice(msg, param_start + 2, param_end), kargs))

\* msg.find('${',text_start) answered param_start
ScanFound(msg, kargs, st, param_start) ==
    IF param_start = -1
    THEN [st EXCEPT !.msg_parts = @ \o <<SliceFrom(msg, st.text_start)>>,
                    !.status = "done"]
    ELSE ScanPlaceholder(msg, kargs, st, param_start,
                         Find1(msg, "}", param_start + 2))

\* one iteration of `while True:` in create_error
ScanStep(msg, kargs, st) ==
    ScanFound(msg, kargs, st, Find2(msg, "$", "{", st.text_start))

\* the loop, run for at most `fuel` iterations; a scan that has not ended by
\* then is left in status "scan"
RECURSIVE ScanRun(_, _, _, _)
ScanRun(msg, kargs, st, fuel) ==
    IF st.status # "scan" \/ fuel = 0 THEN st
    ELSE ScanRun(msg, kargs, ScanStep(msg, kargs, st), fuel - 1)

\* xbrl.Error.create(''.join(msg_parts), ...), or the exception of the scan
ErrorOf(st, location, severity, children) ==
    [exc |-> st.exc, what |-> st.what, ended |-> st.status # "scan",
     text |-> Join(st.msg_parts), location |-> location,
     severity |-> severity, children |-> children,
     params |-> st.msg_params]

\* create_error(msg,location,severity,children,**kargs): the xbrl.Error, or
\* the exception raised.  A scan over a message whose placeholders are all
\* closed ends within Len(msg) + 1 iterations.
create_error(msg, location, severity, children, kargs) ==
    ErrorOf(ScanRun(msg, kargs, ScanInit, Len(msg) + 1),
            location, severity, children)

(***************************************************************************)
(* Rule codes and report_error.                                            *)
(***************************************************************************)
\* 'DQC.US.nnnn.mm' and its family prefix 'DQC.US.nnnn'
RuleId(family, test) == <<"DQC", ".", "US", ".", family, ".", test>>
FamilyId(family) == <<"DQC", ".", "US", ".", family>>

RuleInfo(version) ==
    [ruleVersion |-> version[1], releaseDate |-> version[2], uri |-> version[3]]

msg_template_properties ==
    << <<"The properties of this ", "$", "{", "fact1", ".", "name", "}",
         " fact are:">>,
       <<"Period: ", "$", "{", "fact1", ".", "period", "}">>,
       <<"Dimensions: ", "$", "{", "fact1", ".", "dimensions", "}">>,
       <<"Unit: ", "$", "{", "fact1", ".", "unit", "}">>,
       <<"Rule version: ", "$", "{", "ruleVersion", "}">> >>

\* a function extended or overridden at one key (dict item assignment)
DictSet(d, k, v) ==
    [x \in DOMAIN d \cup {k} |-> IF x = k THEN v ELSE d[x]]

\* an exception of create_error as [exc, what]; a scan that never ends is
\* reported as "Diverges"
Failure(e) == IF e.ended THEN e.exc ELSE "Diverges"
Failed(e) == e.exc # "" \/ ~e.ended

CreatedThen(e, rest) ==
    IF Failed(e) THEN [exc |-> Failure(e), what |-> e.what, errors |-> <<>>]
    ELSE IF rest.exc # "" THEN rest
    ELSE [rest EXCEPT !.errors = <<e>> \o @]

\* the create_error calls of a list comprehension or loop, in order: the
\* errors built, and the first exception raised (none: "")
RECURSIVE CreateAll(_, _, _)
CreateAll(lines, severity, kargs) ==
    IF lines = <<>> THEN [exc |-> "", what |-> <<>>, errors |-> <<>>]
    ELSE CreatedThen(create_error(Head(lines), 0, severity, <<>>, kargs),
                     CreateAll(Tail(lines), severity, kargs))

\* the outcome of one report_error call: the errors it reports to the log
\* (none or one) and the exception it raises (none: "")
Reported(errors) == [exc |-> "", what |-> <<>>, reported |-> errors]
Aborted(exc, what) == [exc |-> exc, what |-> what, reported |-> <<>>]

\* report_error looking the suppression up by family prefix as well
IsSuppressedByFamily(suppress, rule_id) ==
    rule_id \in suppress \/ RSplit1Head(rule_id, ".") \in suppress

\* `rule_id in suppress_errors`
IsSuppressed(suppress, rule_id) == rule_id \in suppress

\* error_log.report(create_error(msg_text,kargs['fact1'],ERROR,child_lines,..))
ReportBuilt(err) ==
    IF Failed(err) THEN Aborted(Failure(err), err.what) ELSE Reported(<<err>>)

\* the headline created without a location, as the child lines are
BuildHeadlineUnlocated(msg, rule_id, kargs, child_lines) ==
    IF <<"fact1">> \notin DOMAIN kargs THEN Aborted("KeyError", <<"fact1">>)
    ELSE ReportBuilt(create_error(<<"[">> \o rule_id \o <<"] ">> \o msg.msg,
                                  0, "ERROR", child_lines, kargs))

BuildHeadline(msg, rule_id, kargs, child_lines) ==
    IF <<"fact1">> \notin DOMAIN kargs THEN Aborted("KeyError", <<"fact1">>)
    ELSE ReportBuilt(create_error(<<"[">> \o rule_id \o <<"] ">> \o msg.msg,
                                  kargs[<<"fact1">>].fact.id, "ERROR",
                                  child_lines, kargs))

\* child_lines.append(create_error(msg_template_properties[0],..,property_lines))
BuildChildren(msg, rule_id, kargs, hint, head) ==
    IF Failed(head) THEN Aborted(Failure(head), head.what)
    ELSE BuildHeadline(msg, rule_id, kargs, hint.errors \o <<head>>)

\* if 'hint' in msg: child_lines.append(create_error(msg['hint'],..INFO..))
BuildHint(msg, rule_id, kargs, props, hint) ==
    IF hint.exc # "" THEN Aborted(hint.exc, hint.what)
    ELSE BuildChildren(msg, rule_id, kargs, hint,
                       create_error(msg_template_properties[1], 0, "OTHER",
                                    props.errors, kargs))

\* the property lines
BuildProperties(msg, rule_id, kargs, props) ==
    IF props.exc # "" THEN Aborted(props.exc, props.what)
    ELSE BuildHint(msg, rule_id, kargs, props, CreateAll(msg.hint, "INFO", kargs))

BuildWith(msg, rule_id, kargs) ==
    BuildProperties(msg, rule_id, kargs,
                    CreateAll(SubSeq(msg_template_properties, 2,
                                     Len(msg_template_properties)),
                              "OTHER", kargs))

\* the look-up of the template under the code alone
TemplateKeyExact(templates, rule_id) == rule_id

\* the look-up of the template: under the code, else under the code without
\* its test case number
TemplateKey(templates, rule_id) ==
    IF rule_id \in DOMAIN templates THEN rule_id ELSE RSplit1Head(rule_id, ".")

BuildFor(templates, rule_id, kargs0, key) ==
    IF key \notin DOMAIN templates THEN Aborted("KeyError", key)
    ELSE BuildWith(templates[key], rule_id,
                   DictSet(kargs0, <<"ruleVersion">>,
                           [kind |-> "RuleInfo",
                            info |-> RuleInfo(templates[key].version)]))

\* the part of report_error after the suppression test
BuildAndReport(templates, rule_id, kargs0) ==
    BuildFor(templates, rule_id, kargs0, TemplateKey(templates, rule_id))

\* report_error with the template looked up before the suppression test
report_error_lookup_first(suppress, templates, rule_id, kargs) ==
    IF TemplateKey(templates, rule_id) \notin DOMAIN templates
    THEN Aborted("KeyError", TemplateKey(templates, rule_id))
    ELSE IF IsSuppressed(suppress, rule_id) THEN Reported(<<>>)
    ELSE BuildAndReport(templates, rule_id, kargs)

\* report_error(error_log,suppress_errors,rule_id,**kargs)
report_error(suppress, templates, rule_id, kargs) ==
    IF IsSuppressed(suppress, rule_id) THEN Reported(<<>>)
    ELSE BuildAndReport(templates, rule_id, kargs)

(***************************************************************************)
(* The document model handed to the rules (altova_api.v2.xbrl).            *)
(* A concept is [ns, prefix, name, labels, numeric, textblock,             *)
(* default_member]; a fact carries the fields of its concept and id, nil,  *)
(* numeric_value, decimals, normalized_value, date_value, period, dims,    *)
(* unit.  NoConcept is the None that resolve_concept returns.              *)
(***************************************************************************)
NoConcept ==
    [ns |-> <<>>, prefix |-> "", name |-> "", labels |-> <<>>,
     numeric |-> FALSE, textblock |-> FALSE, default_member |-> ""]

\* the key None of a dict keyed by domain members
NoneKey == "None"

ConceptOf(fact) ==
    [ns |-> fact.ns, prefix |-> fact.prefix, name |-> fact.name,
     labels |-> fact.labels, numeric |-> fact.numeric,
     textblock |-> fact.textblock, default_member |-> ""]

\* namespaces.get(prefix): <<>> is None
NsGet(nsmap, prefix) == IF prefix \in DOMAIN nsmap THEN nsmap[prefix] ELSE <<>>

\* instance.dts.resolve_concept(xml.QName(name,namespace))
resolve_concept(inst, name, namespace) ==
    LET found == {c \in inst.dts.concepts : c.name = name /\ c.ns = namespace}
    IN  IF namespace = <<>> \/ found = {} THEN NoConcept
        ELSE CHOOSE c \in found : TRUE

Select(s, Test(_)) == SelectSeq(s, Test)

RECURSIVE FlatMap(_, _)
FlatMap(F(_), s) ==
    IF s = <<>> THEN <<>> ELSE F(Head(s)) \o FlatMap(F, Tail(s))

\* instance.facts.filter(concept, allow_nil=...)
FilterConcept(inst, concept, allow_nil) ==
    Select(inst.facts,
           LAMBDA f : f.ns = concept.ns /\ f.name = concept.name
                      /\ (allow_nil \/ ~f.nil))

DimSet(fact) == {fact.dims[i] : i \in 1 .. Len(fact.dims)}

\* the same filter with additional dimensions always allowed
FilterLikeOpen(inst, fact1, concept2, allow_additional_dimensions) ==
    Select(inst.facts,
           LAMBDA f : /\ f.ns = concept2.ns /\ f.name = concept2.name
                      /\ ~f.nil
                      /\ f.period = fact1.period
                      /\ f.unit = fact1.unit
                      /\ DimSet(fact1) \subseteq DimSet(f))

\* cs = xbrl.ConstraintSet(fact1); cs[xbrl.Aspect.CONCEPT] = concept2;
\* instance.facts.filter(cs,allow_nil=False,allow_additional_dimensions=..):
\* the facts of concept2 with the period, unit and dimension values of fact1
FilterLike(inst, fact1, concept2, allow_additional_dimensions) ==
    Select(inst.facts,
           LAMBDA f : /\ f.ns = concept2.ns /\ f.name = concept2.name
                      /\ ~f.nil
                      /\ f.period = fact1.period
                      /\ f.unit = fact1.unit
                      /\ DimSet(fact1) \subseteq DimSet(f)
                      /\ (allow_additional_dimensions
                          \/ DimSet(f) \subseteq DimSet(fact1)))

\* dimension_value(fact,dim) for a resolved dim: the explicit member, else
\* the default member of the dimension
dimension_value(fact, dim) ==
    LET hits == {i \in 1 .. Len(fact.dims) : fact.dims[i].dim = dim.name}
    IN  IF hits = {} THEN dim.default_member
        ELSE fact.dims[CHOOSE i \in hits : TRUE].member

\* dict.get(key): <<>> is None, <<v>> is v
DictGet(d, k) == IF k \in DOMAIN d THEN <<d[k]>> ELSE <<>>

(***************************************************************************)
(* What a rule does, in order: report_error calls and raised exceptions.   *)
(***************************************************************************)
Report(rule_id, kargs) ==
    [ev |-> "report", rule_id |-> rule_id, kargs |-> kargs, exc |-> ""]
Throw(exc) ==
    [ev |-> "raise", rule_id |-> <<>>, kargs |-> <<>>, exc |-> exc]

FactArg(f) == [kind |-> "Fact", fact |-> f]
ConceptArg(c) == [kind |-> "Concept", concept |-> c]

\* the outcome r of the first event, followed by the outcome of the rest
Then(r, rest) ==
    IF r.exc # "" THEN r ELSE [rest EXCEPT !.reported = r.reported \o @]

\* the effect of the events on the log, up to the first exception
RECURSIVE Deliver(_, _, _)
Deliver(events, suppress, templates) ==
    IF events = <<>> THEN Reported(<<>>)
    ELSE IF Head(events).ev = "raise" THEN Aborted(Head(events).exc, <<>>)
    ELSE Then(report_error(suppress, templates, Head(events).rule_id,
                           Head(events).kargs),
              Deliver(Tail(events), suppress, templates))

(***************************************************************************)
(* DQC_0004 Element Values Are Equal                                       *)
(***************************************************************************)
Events_dqc_0004(inst, rule_id, concept1, concept2) ==
    FlatMap(LAMBDA fact1 :
              FlatMap(LAMBDA fact2 :
                        IF ~decimal_comparison(fact1, fact2,
                                               "equal_within_tolerance")
                        THEN <<Report(rule_id,
                                 (<<"fact1">> :> FactArg(fact1))
                                 @@ (<<"fact2">> :> FactArg(fact2)))>>
                        ELSE <<>>,
                      FilterLike(inst, fact1, concept2, FALSE)),
            FilterConcept(inst, concept1, FALSE))

Events_dqc_0004_16(inst, nsmap) ==
    LET concept_Assets ==
            resolve_concept(inst, "Assets", NsGet(nsmap, "us-gaap"))
        concept_LiabilitiesAndStockholdersEquity ==
            resolve_concept(inst, "LiabilitiesAndStockholdersEquity",
                            NsGet(nsmap, "us-gaap"))
    IN  IF concept_Assets # NoConcept
           /\ concept_LiabilitiesAndStockholdersEquity # NoConcept
        THEN Events_dqc_0004(inst, RuleId("0004", "16"), concept_Assets,
                             concept_LiabilitiesAndStockholdersEquity)
        ELSE <<>>

(***************************************************************************)
(* Unresolved concepts.  What the document API does when it is handed None *)
(* where a concept or dimension is expected is not fixed by this code: it  *)
(* either raises TypeError or matches nothing (inst.api_none).             *)
(***************************************************************************)
ApiRaises(inst, concept) == concept = NoConcept /\ inst.api_none = "raise"

\* dimension_value(fact,dim) as a dict key, for a dim that may be None
EntityKey(fact, dim) ==
    IF dim = NoConcept THEN NoneKey ELSE dimension_value(fact, dim)

\* the entry of a per-legal-entity dict for fact1, with the fall back to the
\* default member of the axis:
\*     x = d.get(dimension_value(fact1,dim))
\*     if not x: x = d.get(dim.default_member)
\* [exc, entry]: entry is <<>> when there is none
EntityEntry(inst, d, fact1, dim) ==
    IF ApiRaises(inst, dim) THEN [exc |-> "TypeError", entry |-> <<>>]
    ELSE LET own == DictGet(d, EntityKey(fact1, dim))
         IN  IF own # <<>> THEN [exc |-> "", entry |-> own]
             ELSE IF dim = NoConcept
             THEN [exc |-> "AttributeError", entry |-> <<>>]
             ELSE [exc |-> "", entry |-> DictGet(d, dim.default_member)]

\* the same without the fall back
EntityEntryOwn(inst, d, fact1, dim) ==
    IF ApiRaises(inst, dim) THEN [exc |-> "TypeError", entry |-> <<>>]
    ELSE [exc |-> "", entry |-> DictGet(d, EntityKey(fact1, dim))]

Abs(n) == IF n < 0 THEN -n ELSE n

(***************************************************************************)
(* DQC_0005 Context Dates After Period End Date                            *)
(***************************************************************************)
\* the dict built by the loop of reporting_period_ends
RECURSIVE PeriodEndsOf(_, _, _)
PeriodEndsOf(facts, dim, d) ==
    IF facts = <<>> THEN d
    ELSE LET fact == Head(facts)
             end_date == fact.period.end
             legal_entity == EntityKey(fact, dim)
         IN  PeriodEndsOf(Tail(facts), dim,
                 IF legal_entity \notin DOMAIN d
                    \/ DtLt(d[legal_entity].end, end_date)
                 THEN DictSet(d, legal_entity, [fact |-> fact, end |-> end_date])
                 ELSE d)

EmptyDict == [k \in {} |-> <<>>]

reporting_period_ends(inst, dei_namespace) ==
    LET dim_LegalEntityAxis ==
            resolve_concept(inst, "LegalEntityAxis", dei_namespace)
        concept_DocumentPeriodEndDate ==
            resolve_concept(inst, "DocumentPeriodEndDate", dei_namespace)
        facts == FilterConcept(inst, concept_DocumentPeriodEndDate, TRUE)
    IN  IF ApiRaises(inst, concept_DocumentPeriodEndDate)
           \/ (facts # <<>> /\ ApiRaises(inst, dim_LegalEntityAxis))
        THEN [exc |-> "TypeError", ends |-> EmptyDict]
        ELSE [exc |-> "",
              ends |-> PeriodEndsOf(facts, dim_LegalEntityAxis, EmptyDict)]

\* operator.gt whatever the operator handed in
DateCmpLater(cmp, a, b) == DtLt(b, a)

\* operator.ge and operator.gt on datetimes
DateCmp(cmp, a, b) == IF cmp = "ge" THEN DtLe(b, a) ELSE DtLt(b, a)

Events_dqc_0005(inst, rule_id, nsmap, facts, ends, cmp, additional_params) ==
    LET dim_LegalEntityAxis ==
            resolve_concept(inst, "LegalEntityAxis", nsmap["dei"])
    IN  FlatMap(LAMBDA fact1 :
                  LET e == EntityEntry(inst, ends, fact1, dim_LegalEntityAxis)
                  IN  IF e.exc # "" THEN <<Throw(e.exc)>>
                      ELSE IF e.entry # <<>>
                              /\ ~DateCmp(cmp, period_end(fact1), e.entry[1].end)
                      THEN <<Report(rule_id,
                               (<<"fact1">> :> FactArg(fact1))
                               @@ (<<"dei", ":", "DocumentPeriodEndDate">>
                                     :> FactArg(e.entry[1].fact))
                               @@ additional_params)>>
                      ELSE <<>>,
                facts)

Events_dqc_0005_17(inst, nsmap, ends) ==
    LET concept_EntityCommonStockSharesOutstanding ==
            resolve_concept(inst, "EntityCommonStockSharesOutstanding",
                            nsmap["dei"])
    IN  IF ApiRaises(inst, concept_EntityCommonStockSharesOutstanding)
        THEN <<Throw("TypeError")>>
        ELSE Events_dqc_0005(inst, RuleId("0005", "17"), nsmap,
                 FilterConcept(inst, concept_EntityCommonStockSharesOutstanding,
                               TRUE),
                 ends, "ge", EmptyDict)

Events_dqc_0005_48(inst, nsmap, ends) ==
    LET dim_SubsequentEventTypeAxis ==
            resolve_concept(inst, "SubsequentEventTypeAxis",
                            NsGet(nsmap, "us-gaap"))
    IN  IF dim_SubsequentEventTypeAxis # NoConcept
        THEN Events_dqc_0005(inst, RuleId("0005", "48"), nsmap,
                 Select(inst.facts,
                        LAMBDA f : dimension_value(f, dim_SubsequentEventTypeAxis)
                                   # dim_SubsequentEventTypeAxis.default_member),
                 ends, "gt",
                 <<"us-gaap", ":", "SubsequentEventTypeAxis">>
                     :> ConceptArg(dim_SubsequentEventTypeAxis))
        ELSE <<>>

Events_dqc_0005_49(inst, nsmap, ends) ==
    LET dim_StatementScenarioAxis ==
            resolve_concept(inst, "StatementScenarioAxis",
                            NsGet(nsmap, "us-gaap"))
        member_ScenarioForecastMember ==
            resolve_concept(inst, "ScenarioForecastMember",
                            NsGet(nsmap, "us-gaap"))
    IN  IF dim_StatementScenarioAxis # NoConcept
        THEN IF ApiRaises(inst, member_ScenarioForecastMember)
             THEN <<Throw("TypeError")>>
             ELSE Events_dqc_0005(inst, RuleId("0005", "49"), nsmap,
                      Select(inst.facts,
                             LAMBDA f :
                               /\ member_ScenarioForecastMember # NoConcept
                               /\ dimension_value(f, dim_StatementScenarioAxis)
                                  = member_ScenarioForecastMember.name),
                      ends, "gt",
                      (<<"us-gaap", ":", "StatementScenarioAxis">>
                         :> ConceptArg(dim_StatementScenarioAxis))
                      @@ (<<"us-gaap", ":", "ScenarioForecastMember">>
                         :> ConceptArg(member_ScenarioForecastMember)))
        ELSE <<>>

Events_dqc_0005_all(inst, nsmap) ==
    LET reporting_periods == reporting_period_ends(inst, nsmap["dei"])
    IN  IF reporting_periods.exc # "" THEN <<Throw(reporting_periods.exc)>>
        ELSE Events_dqc_0005_17(inst, nsmap, reporting_periods.ends)
             \o Events_dqc_0005_48(inst, nsmap, reporting_periods.ends)
             \o Events_dqc_0005_49(inst, nsmap, reporting_periods.ends)

(***************************************************************************)
(* DQC_0006 DEI and Block Tag Date Contexts                                *)
(***************************************************************************)
fact_names ==
    <<"AmendmentDescription", "AmendmentFlag", "CurrentFiscalYearEndDate",
      "DocumentPeriodEndDate", "DocumentFiscalYearFocus",
      "DocumentFiscalPeriodFocus", "DocumentType", "EntityRegistrantName",
      "EntityCentralIndexKey", "EntityFilerCategory">>

\* textblock_facts(instance)
textblock_facts(inst) ==
    IF inst.dts.textBlockItemType
    THEN Select(inst.facts, LAMBDA f : f.textblock)
    ELSE <<>>

\* `not duration[0] <= period_duration(fact1) <= duration[1]`, with the
\* bounds exclusive
OutsideDurationExclusive(duration, fact1) ==
    ~(duration[1] < period_duration(fact1) /\ period_duration(fact1) < duration[2])

\* `not duration[0] <= period_duration(fact1) <= duration[1]`
OutsideDuration(duration, fact1) ==
    ~(duration[1] <= period_duration(fact1) /\ period_duration(fact1) <= duration[2])

\* the period focus fact that _dqc_0006 tests fact1 against: [exc, entry]
PeriodFocusOf(inst, period_focus_for_legal_entity, fact1, dim) ==
    EntityEntry(inst, period_focus_for_legal_entity, fact1, dim)

\* _dqc_0006 over `facts`
Events_dqc_0006_facts(inst, durations, dim_LegalEntityAxis, period_focus_for_legal_entity, facts) ==
    FlatMap(LAMBDA fact1 :
              LET e == PeriodFocusOf(inst, period_focus_for_legal_entity, fact1,
                                     dim_LegalEntityAxis)
              IN  IF e.exc # "" THEN <<Throw(e.exc)>>
                  ELSE IF e.entry # <<>>
                          /\ e.entry[1].normalized_value \in DOMAIN durations
                          /\ OutsideDuration(
                                 durations[e.entry[1].normalized_value], fact1)
                  THEN <<Report(RuleId("0006", "14"),
                           (<<"fact1">> :> FactArg(fact1))
                           @@ (<<"dei", ":", "DocumentFiscalPeriodFocus">>
                                 :> FactArg(e.entry[1])))>>
                  ELSE <<>>,
            facts)

\* period_focus_for_legal_entity: the last fact of each legal entity wins
RECURSIVE PeriodFocusDict(_, _, _)
PeriodFocusDict(facts, dim, d) ==
    IF facts = <<>> THEN d
    ELSE PeriodFocusDict(Tail(facts), dim,
                         DictSet(d, EntityKey(Head(facts), dim), Head(facts)))

\* the transition-period test on the single DocumentType fact
IsTransitionFiling(value) ==
    EndsWith(value, <<"T">>) \/ EndsWith(value, <<"T", "/", "A">>)

Events_dqc_0006(inst, nsmap, durations) ==
    LET concept_DocumentType ==
            resolve_concept(inst, "DocumentType", nsmap["dei"])
        facts_DocumentType == FilterConcept(inst, concept_DocumentType, TRUE)
        dim_LegalEntityAxis ==
            resolve_concept(inst, "LegalEntityAxis", nsmap["dei"])
        concept_DocumentFiscalPeriodFocus ==
            resolve_concept(inst, "DocumentFiscalPeriodFocus", nsmap["dei"])
        focus_facts == FilterConcept(inst, concept_DocumentFiscalPeriodFocus, TRUE)
        period_focus_for_legal_entity ==
            PeriodFocusDict(focus_facts, dim_LegalEntityAxis, EmptyDict)
    IN  IF ApiRaises(inst, concept_DocumentType) THEN <<Throw("TypeError")>>
        ELSE IF Len(facts_DocumentType) # 1
                \/ IsTransitionFiling(facts_DocumentType[1].normalized_value)
        THEN <<>>
        ELSE IF ApiRaises(inst, concept_DocumentFiscalPeriodFocus)
                \/ (focus_facts # <<>> /\ ApiRaises(inst, dim_LegalEntityAxis))
        THEN <<Throw("TypeError")>>
        ELSE FlatMap(LAMBDA name :
                       LET concept == resolve_concept(inst, name, nsmap["dei"])
                       IN  IF concept # NoConcept
                           THEN Events_dqc_0006_facts(inst, durations,
                                    dim_LegalEntityAxis,
                                    period_focus_for_legal_entity,
                                    FilterConcept(inst, concept, TRUE))
                           ELSE <<>>,
                     fact_names)
             \o Events_dqc_0006_facts(inst, durations, dim_LegalEntityAxis,
                    period_focus_for_legal_entity, textblock_facts(inst))

(***************************************************************************)
(* DQC_0009 Element A must be less than or equal to Element B              *)
(***************************************************************************)
Events_dqc_0009(inst, nsmap, rows) ==
    FlatMap(LAMBDA row :
              LET concept1 == resolve_concept(inst, row[3], NsGet(nsmap, row[2]))
                  concept2 == resolve_concept(inst, row[5], NsGet(nsmap, row[4]))
              IN  IF concept1 # NoConcept /\ concept2 # NoConcept
                  THEN FlatMap(LAMBDA fact1 :
                         FlatMap(LAMBDA fact2 :
                                   IF ~decimal_comparison(fact1, fact2,
                                                          "less_or_equal")
                                   THEN <<Report(row[1],
                                            (<<"fact1">> :> FactArg(fact1))
                                            @@ (<<"fact2">> :> FactArg(fact2)))>>
                                   ELSE <<>>,
                                 FilterLike(inst, fact1, concept2, FALSE)),
                         FilterConcept(inst, concept1, FALSE))
                  ELSE <<>>,
            rows)

(***************************************************************************)
(* DQC_0015 Negative Values                                                *)
(***************************************************************************)
\* the characters of a concept name, lower-cased, as the tokens that the
\* member-exclusion texts are made of
NameChars(name) ==
    CASE name = "RestatementAdjustmentMember" -> <<"restatement", "adjustment", "member">>
      [] name = "EliminationsMember"          -> <<"eliminations", "member">>
      [] name = "ScenarioForecastMember"      -> <<"scenario", "forecast", "member">>
      [] name = "SegmentAMember"              -> <<"segment", "a", "member">>
      [] name = "StatementScenarioAxis"       -> <<"statement", "scenario", "axis">>
      [] name = "ConsolidationItemsAxis"      -> <<"consolidation", "items", "axis">>
      [] name = "LegalEntityAxis"             -> <<"legal", "entity", "axis">>
      [] name = "SubsequentEventTypeAxis"     -> <<"subsequent", "event", "type", "axis">>
      [] OTHER                                -> <<name>>

\* re.search(text,name,re.IGNORECASE) for a text without metacharacters
Contains(text, name) ==
    \E i \in 0 .. Len(name) - Len(text) :
        SubSeq(name, i + 1, i + Len(text)) = text

\* the member name whatever the kind of the rule
TestedNameMember(rule, dim_aspect) == dim_aspect.member

TestedName(rule, dim_aspect) ==
    IF rule.dim = "Member" THEN dim_aspect.member ELSE dim_aspect.dim

\* _dqc_0015_member_exclusions_test(rule,dim_aspect): [exc, value]
RECURSIVE member_exclusions_test(_, _)
member_exclusions_test(rule, dim_aspect) ==
    IF rule.test = "Contains the text"
    THEN [exc |-> "",
          value |-> Contains(rule.text, NameChars(TestedName(rule, dim_aspect)))]
    ELSE IF rule.test = "Equals"
    THEN [exc |-> "", value |-> TestedName(rule, dim_aspect) = rule.name]
    ELSE IF rule.test = "AND"
    THEN LET a == member_exclusions_test(rule.arg1, dim_aspect)
         IN  IF a.exc # "" \/ ~a.value THEN a
             ELSE member_exclusions_test(rule.arg2, dim_aspect)
    ELSE IF rule.test = "OR"
    THEN LET a == member_exclusions_test(rule.arg1, dim_aspect)
         IN  IF a.exc # "" \/ a.value THEN a
             ELSE member_exclusions_test(rule.arg2, dim_aspect)
    ELSE [exc |-> "RuntimeError", value |-> FALSE]

\* _dqc_0015_member_exclusions_check(fact): the first outcome, in loop order,
\* that is True or an exception; False when there is none
RECURSIVE ExclusionsScan(_, _, _, _)
ExclusionsScan(dims, rules, i, j) ==
    IF i > Len(dims) THEN [exc |-> "", value |-> FALSE]
    ELSE IF j > Len(rules) THEN ExclusionsScan(dims, rules, i + 1, 1)
    ELSE LET r == member_exclusions_test(rules[j], dims[i])
         IN  IF r.exc # "" \/ r.value THEN r
             ELSE ExclusionsScan(dims, rules, i, j + 1)

member_exclusions_check(fact, exclusions) ==
    ExclusionsScan(fact.dims, exclusions, 1, 1)

Events_dqc_0015(inst, nsmap, rows, exclusions) ==
    FlatMap(LAMBDA row :
              LET concept == resolve_concept(inst, row[3], NsGet(nsmap, row[2]))
              IN  IF concept # NoConcept
                  THEN FlatMap(LAMBDA fact1 :
                         IF fact1.numeric_value.coef < 0
                         THEN LET x == member_exclusions_check(fact1, exclusions)
                              IN  IF x.exc # "" THEN <<Throw(x.exc)>>
                                  ELSE IF ~x.value
                                  THEN <<Report(row[1],
                                           <<"fact1">> :> FactArg(fact1))>>
                                  ELSE <<>>
                         ELSE <<>>,
                         FilterConcept(inst, concept, FALSE))
                  ELSE <<>>,
            rows)

(***************************************************************************)
(* DQC_0033 Document Period End Date Context and                           *)
(* DQC_0036 Document Period End Date Context / Fact Value Check            *)
(***************************************************************************)
\* datetime.combine(fact.element.schema_actual_value.value, time())
\*   + timedelta(days=1)
DeclaredEnd(fact) == DateTime(fact.date_value + 1, 0)

\* abs((end_date - fact1.period_aspect_value.end).days)
DaysOff(fact) == Abs(DeltaDays(DeclaredEnd(fact), fact.period.end))

\* the dict of dqc_0033 with every entry taken as valid
RECURSIVE ReportingPeriodsAllValid(_, _, _)
ReportingPeriodsAllValid(facts, dim, d) ==
    IF facts = <<>> THEN d
    ELSE ReportingPeriodsAllValid(Tail(facts), dim,
             DictSet(d, EntityKey(Head(facts), dim),
                     [fact |-> Head(facts), is_valid |-> TRUE]))

RECURSIVE ReportingPeriods(_, _, _)
ReportingPeriods(facts, dim, d) ==
    IF facts = <<>> THEN d
    ELSE ReportingPeriods(Tail(facts), dim,
             DictSet(d, EntityKey(Head(facts), dim),
                     [fact |-> Head(facts), is_valid |-> DaysOff(Head(facts)) <= 3]))

ignored_0033 ==
    {"EntityCommonStockSharesOutstanding", "EntityPublicFloat",
     "DocumentPeriodEndDate", "EntityNumberOfEmployees",
     "EntityListingDepositoryReceiptRatio"}

\* facts_in_namespace(instance,namespace,ignored)
facts_in_namespace(inst, namespace, ignored) ==
    Select(inst.facts, LAMBDA f : f.ns = namespace /\ f.name \notin ignored)

Events_dqc_0033(inst, nsmap) ==
    LET dei_namespace == nsmap["dei"]
        dim_LegalEntityAxis ==
            resolve_concept(inst, "LegalEntityAxis", dei_namespace)
        concept_DocumentPeriodEndDate ==
            resolve_concept(inst, "DocumentPeriodEndDate", dei_namespace)
        dped == FilterConcept(inst, concept_DocumentPeriodEndDate, TRUE)
        reporting_periods == ReportingPeriods(dped, dim_LegalEntityAxis, EmptyDict)
    IN  IF ApiRaises(inst, concept_DocumentPeriodEndDate)
           \/ (dped # <<>> /\ ApiRaises(inst, dim_LegalEntityAxis))
        THEN <<Throw("TypeError")>>
        ELSE FlatMap(LAMBDA fact1 :
                       LET e == EntityEntry(inst, reporting_periods, fact1,
                                            dim_LegalEntityAxis)
                       IN  IF e.exc # "" THEN <<Throw(e.exc)>>
                           ELSE IF e.entry # <<>> /\ e.entry[1].is_valid
                                   /\ period_end(fact1)
                                      # period_end(e.entry[1].fact)
                           THEN <<Report(RuleId("0033", "2"),
                                    (<<"fact1">> :> FactArg(fact1))
                                    @@ (<<"dei", ":", "DocumentPeriodEndDate">>
                                          :> FactArg(e.entry[1].fact)))>>
                           ELSE <<>>,
                     facts_in_namespace(inst, dei_namespace, ignored_0033))

Events_dqc_0036(inst, nsmap) ==
    LET concept_DocumentPeriodEndDate ==
            resolve_concept(inst, "DocumentPeriodEndDate", nsmap["dei"])
    IN  IF ApiRaises(inst, concept_DocumentPeriodEndDate)
        THEN <<Throw("TypeError")>>
        ELSE FlatMap(LAMBDA fact1 :
                       IF DaysOff(fact1) > 3
                       THEN <<Report(RuleId("0036", "1"),
                                     <<"fact1">> :> FactArg(fact1))>>
                       ELSE <<>>,
                     FilterConcept(inst, concept_DocumentPeriodEndDate, TRUE))

(***************************************************************************)
(* The driver.                                                             *)
(***************************************************************************)
\* re_namespaces: the hosts accepted for each standard prefix
re_namespaces ==
    [prefix \in {"country", "currency", "dei", "exch", "invest", "naics",
                 "sic", "stpr"} |-> {"xbrl.us", "xbrl.sec.gov"}]
    @@ ("us-gaap" :> {"xbrl.us", "fasb.org"})

\* re.fullmatch of r'http://<host>/<prefix>/[0-9-]{10}' on a namespace
\* <<"http://", host, "/", family, "/", date>> (+ anything that follows);
\* a date token is "D10" when it is ten characters of digits and hyphens
FullMatch(prefix, ns) ==
    /\ Len(ns) = 6
    /\ ns[1] = "http://" /\ ns[2] \in re_namespaces[prefix]
    /\ ns[3] = "/" /\ ns[4] = prefix /\ ns[5] = "/" /\ ns[6] = "D10"

\* standard_namespaces(dts): a later matching schema overrides an earlier one
RECURSIVE standard_namespaces(_, _)
standard_namespaces(schemas, d) ==
    IF schemas = <<>> THEN d
    ELSE LET ns == Head(schemas)
             hit == {p \in DOMAIN re_namespaces : ns # <<>> /\ FullMatch(p, ns)}
         IN  standard_namespaces(Tail(schemas),
                 [p \in DOMAIN d \cup hit |-> IF p \in hit THEN ns ELSE d[p]])

\* parse_suppress_errors(params) and the set comprehension of validate
parse_suppress_errors(ps) ==
    IF ps = None \/ ps[1] = <<>> THEN <<>> ELSE Split(ps[1], "|")

SuppressSet(ps) ==
    LET codes == parse_suppress_errors(ps)
    IN  {Strip(codes[i]) : i \in 1 .. Len(codes)}

NoError == [exc |-> "", what |-> <<>>]

NextPc(p) ==
    CASE p = "dqc_0004" -> "dqc_0005"
      [] p = "dqc_0005" -> "dqc_0006"
      [] p = "dqc_0006" -> "dqc_0009"
      [] p = "dqc_0009" -> "dqc_0015"
      [] p = "dqc_0015" -> "dqc_0033"
      [] p = "dqc_0033" -> "dqc_0036"
      [] p = "dqc_0036" -> "done"

Inputs == <<instance, params, msg_templates, dqc_0006_period_focus_durations,
            dqc_0009_facts, dqc_0015_facts, dqc_0015_member_exclusions>>

\* validate, up to the first rule family
validate_start ==
    /\ pc = "start"
    /\ IF instance.loaded
       THEN /\ suppress_errors' = SuppressSet(params)
            /\ namespaces' = standard_namespaces(instance.dts.taxonomy_schemas,
                                                 [p \in {} |-> <<>>])
            /\ pc' = IF "dei" \in DOMAIN namespaces' THEN "dqc_0004" ELSE "done"
       ELSE /\ pc' = "done"
            /\ UNCHANGED <<suppress_errors, namespaces>>
    /\ UNCHANGED <<Inputs, error_log, raised, call, ret>>

\* the end of a rule family whose outcome is r: its diagnostics are appended
\* to the log; an exception ends the run
Finish(p, r) ==
    /\ error_log' = error_log \o r.reported
    /\ IF r.exc # ""
       THEN /\ pc' = "aborted"
            /\ raised' = [exc |-> r.exc, what |-> r.what]
       ELSE /\ pc' = NextPc(p)
            /\ UNCHANGED raised
    /\ UNCHANGED <<Inputs, suppress_errors, namespaces, call, ret>>

\* the outcome of a rule family that reports each rule id once per
\* interpreter: the ids already in the log count as suppressed
OutcomeOnce(events) ==
    Deliver(events,
            suppress_errors
              \cup {SubSeq(error_log[i].text, 2, 8) : i \in 1 .. Len(error_log)},
            msg_templates)

\* the outcome of a rule family that does `events`
Outcome(events) == Deliver(events, suppress_errors, msg_templates)

dqc_0004 ==
    /\ pc = "dqc_0004"
    /\ Finish("dqc_0004", Outcome(Events_dqc_0004_16(instance, namespaces)))

dqc_0005 ==
    /\ pc = "dqc_0005"
    /\ Finish("dqc_0005", Outcome(Events_dqc_0005_all(instance, namespaces)))

dqc_0006 ==
    /\ pc = "dqc_0006"
    /\ Finish("dqc_0006",
              Outcome(Events_dqc_0006(instance, namespaces,
                                      dqc_0006_period_focus_durations)))

dqc_0009 ==
    /\ pc = "dqc_0009"
    /\ Finish("dqc_0009",
              Outcome(Events_dqc_0009(instance, namespaces, dqc_0009_facts)))

dqc_0015 ==
    /\ pc = "dqc_0015"
    /\ Finish("dqc_0015",
              Outcome(Events_dqc_0015(instance, namespaces, dqc_0015_facts,
                                      dqc_0015_member_exclusions)))

dqc_0033 ==
    /\ pc = "dqc_0033"
    /\ Finish("dqc_0033", Outcome(Events_dqc_0033(instance, namespaces)))

dqc_0036 ==
    /\ pc = "dqc_0036"
    /\ Finish("dqc_0036", Outcome(Events_dqc_0036(instance, namespaces)))

(***************************************************************************)
(* Documents.                                                              *)
(***************************************************************************)
DeiNs  == <<"http://", "xbrl.sec.gov", "/", "dei", "/", "D10">>
GaapNs == <<"http://", "fasb.org", "/", "us-gaap", "/", "D10">>
ExtNs  == <<"http://", "example.com", "/", "abc", "/", "D10">>
\* a dei namespace whose date part is not ten characters long
OddDeiNs == <<"http://", "xbrl.sec.gov", "/", "dei", "/", "D9">>

Concept(ns, prefix, name, numeric, textblock, default_member) ==
    [ns |-> ns, prefix |-> prefix, name |-> name,
     labels |-> IF numeric THEN <<"Label of " \o name>> ELSE <<>>,
     numeric |-> numeric, textblock |-> textblock,
     default_member |-> default_member]

Gaap(name) == Concept(GaapNs, "us-gaap", name, TRUE, FALSE, "")
Dei(name) == Concept(DeiNs, "dei", name, FALSE, FALSE, "")

LegalEntityAxis == Concept(DeiNs, "dei", "LegalEntityAxis", FALSE, FALSE, "EntityDomain")
SubsequentEventTypeAxis ==
    Concept(GaapNs, "us-gaap", "SubsequentEventTypeAxis", FALSE, FALSE,
            "SubsequentEventTypeDomain")
StatementScenarioAxis ==
    Concept(GaapNs, "us-gaap", "StatementScenarioAxis", FALSE, FALSE,
            "ScenarioUnspecifiedDomain")
PolicyTextBlock == Concept(GaapNs, "us-gaap", "PolicyTextBlock", FALSE, TRUE, "")

\* the concepts of a DTS that loads dei, us-gaap and a company extension
AllConcepts ==
    {Gaap("Assets"), Gaap("LiabilitiesAndStockholdersEquity"),
     Gaap("AssetsCurrent"), Gaap("ScenarioForecastMember"),
     SubsequentEventTypeAxis, StatementScenarioAxis, PolicyTextBlock,
     LegalEntityAxis}
    \cup {Dei(fact_names[i]) : i \in 1 .. Len(fact_names)}
    \cup {Dei("EntityCommonStockSharesOutstanding")}

USD == [present |-> TRUE, numerator |-> <<"USD">>, denominator |-> <<>>]
NoUnit == [present |-> FALSE, numerator |-> <<>>, denominator |-> <<>>]

Instant(day) ==
    [type |-> "INSTANT", start |-> DateTime(day, 0), end |-> DateTime(day, 0)]
Duration(day1, day2) ==
    [type |-> "START_END", start |-> DateTime(day1, 0), end |-> DateTime(day2, 0)]
Forever ==
    [type |-> "FOREVER", start |-> DateTimeMax, end |-> DateTimeMax]

Dim(dim, member) == [dim |-> dim, member |-> member]

\* a fact of `concept`; its id is set by its place in the document
NumFact(concept, nil, coef, decimals, period, dims) ==
    [id |-> 0, ns |-> concept.ns, prefix |-> concept.prefix,
     name |-> concept.name, labels |-> concept.labels,
     numeric |-> TRUE, textblock |-> FALSE, nil |-> nil,
     numeric_value |-> Dec(coef, 0), decimals |-> decimals,
     normalized_value |-> <<ToString(coef)>>, date_value |-> 0,
     period |-> period, dims |-> dims, unit |-> USD]

TextFact(concept, text, date_value, period, dims) ==
    [id |-> 0, ns |-> concept.ns, prefix |-> concept.prefix,
     name |-> concept.name, labels |-> concept.labels,
     numeric |-> FALSE, textblock |-> concept.textblock, nil |-> FALSE,
     numeric_value |-> Dec(0, 0), decimals |-> INF,
     normalized_value |-> text, date_value |-> date_value,
     period |-> period, dims |-> dims, unit |-> NoUnit]

\* the documents of at most n facts drawn from pool, in every order
RECURSIVE SeqsUpTo(_, _)
SeqsUpTo(pool, n) ==
    IF n = 0 THEN {<<>>}
    ELSE LET shorter == SeqsUpTo(pool, n - 1)
         IN  shorter \cup {Append(s, f) : s \in shorter, f \in pool}

WithIds(facts) == [i \in 1 .. Len(facts) |-> [facts[i] EXCEPT !.id = i]]

Instance(facts, schemas, concepts, api_none) ==
    [loaded |-> TRUE, facts |-> WithIds(facts), api_none |-> api_none,
     dts |-> [taxonomy_schemas |-> schemas, concepts |-> concepts,
              textBlockItemType |-> TRUE]]

\* on_xbrl_finished hands None to validate when XBRL validation failed
NoInstance ==
    [loaded |-> FALSE, facts |-> <<>>, api_none |-> "raise",
     dts |-> [taxonomy_schemas |-> <<>>, concepts |-> {},
              textBlockItemType |-> FALSE]]

StdSchemas == <<DeiNs, GaapNs, ExtNs>>

(***************************************************************************)
(* Rule tables.                                                            *)
(***************************************************************************)
Version == <<"1.0", "2015-11-13", "https://xbrl.us/dqc">>

Ph2(a, b) == <<"$", "{", a, ".", b, "}">>

Template(msg, hint) == [msg |-> msg, hint |-> hint, version |-> Version]

T_0004 ==
    Template(Ph2("fact1", "label") \o <<" of ">> \o Ph2("fact1", "value")
               \o <<" is not equal to ">> \o Ph2("fact2", "label") \o <<" of ">>
               \o Ph2("fact2", "value"),
             << <<"Check the ">> \o Ph2("fact2", "name") \o <<" fact.">> >>)
T_0005 ==
    Template(Ph2("fact1", "name") \o <<" ends before ">>
               \o <<"$", "{", "dei", ":", "DocumentPeriodEndDate", ".", "value", "}">>,
             <<>>)
T_0006 ==
    Template(Ph2("fact1", "name") \o <<" lasts ">>
               \o <<"$", "{", "fact1", ".", "period", ".", "durationDays", "}">>
               \o <<" days for focus ">>
               \o <<"$", "{", "dei", ":", "DocumentFiscalPeriodFocus", ".", "value", "}">>,
             <<>>)
T_0009 ==
    Template(Ph2("fact1", "name") \o <<" exceeds ">> \o Ph2("fact2", "name"), <<>>)
T_0015 ==
    Template(Ph2("fact1", "name") \o <<" is negative: ">> \o Ph2("fact1", "value"),
             <<>>)
T_0033 ==
    Template(Ph2("fact1", "name") \o <<" ends on ">>
               \o <<"$", "{", "fact1", ".", "period", ".", "endDate", "}">>
               \o <<" and the period of ">>
               \o <<"$", "{", "dei", ":", "DocumentPeriodEndDate", ".", "value", "}">>
               \o <<" does not">>,
             <<>>)
T_0036 ==
    Template(Ph2("fact1", "name") \o <<" is ">> \o Ph2("fact1", "value"),
             << <<"Check the context of ">> \o Ph2("fact1", "name") >>)

\* every reported code has a template: some under the code itself, the
\* others under the family prefix
TemplatesFull ==
    (RuleId("0004", "16") :> T_0004) @@ (FamilyId("0005") :> T_0005)
    @@ (FamilyId("0006") :> T_0006) @@ (FamilyId("0009") :> T_0009)
    @@ (FamilyId("0015") :> T_0015) @@ (RuleId("0033", "2") :> T_0033)
    @@ (RuleId("0036", "1") :> T_0036)

Without(d, keys) == [k \in DOMAIN d \ keys |-> d[k]]

Rows_0009 ==
    << <<RuleId("0009", "15"), "us-gaap", "AssetsCurrent", "us-gaap", "Assets">> >>
Rows_0015 ==
    << <<RuleId("0015", "1"), "us-gaap", "Assets">>,
       <<RuleId("0015", "2"), "us-gaap", "AssetsCurrent">> >>
Exclusions_0015 ==
    << [test |-> "Contains the text", dim |-> "Member",
        text |-> <<"adjustment">>] >>
Durations ==
    (<<"Q1">> :> <<80, 100>>) @@ (<<"FY">> :> <<340, 390>>)

(***************************************************************************)
(* The documents and configurations the run is started on.                 *)
(***************************************************************************)
\* 2021-01-01T00:00:00, the end of the day 2020-12-31
YearEnd == Instant(18628)
PriorYearEnd == Instant(18262)

Eliminations == Dim("ConsolidationItemsAxis", "EliminationsMember")
Subsidiary == Dim("LegalEntityAxis", "SubsidiaryMember")

Assets(coef, decimals, period, dims) ==
    NumFact(Gaap("Assets"), FALSE, coef, decimals, period, dims)
Liabilities(coef, decimals, period, dims) ==
    NumFact(Gaap("LiabilitiesAndStockholdersEquity"), FALSE, coef, decimals,
            period, dims)

\* a DocumentPeriodEndDate fact that declares 2020-12-31 in a context that
\* ends `off` days later
PeriodEndDate(off, dims) ==
    TextFact(Dei("DocumentPeriodEndDate"), <<"2020-12-31">>, 18627,
             Duration(18262, 18628 + off), dims)

\* balance-sheet documents
PoolEquality ==
    {Assets(100, 0, YearEnd, <<>>),
     Assets(100, 0, YearEnd, <<Eliminations>>),
     NumFact(Gaap("Assets"), TRUE, 100, 0, YearEnd, <<>>),
     Liabilities(97, 0, YearEnd, <<>>),
     Liabilities(98, 0, YearEnd, <<>>),
     Liabilities(99, 0, YearEnd, <<>>),
     Liabilities(100, 0, YearEnd, <<>>),
     Liabilities(103, 0, YearEnd, <<>>),
     Liabilities(120, -1, YearEnd, <<>>),
     Liabilities(97, 0, YearEnd, <<Eliminations>>),
     Liabilities(97, 0, YearEnd, <<Eliminations, Subsidiary>>),
     Liabilities(97, 0, PriorYearEnd, <<>>),
     NumFact(Gaap("LiabilitiesAndStockholdersEquity"), TRUE, 97, 0, YearEnd, <<>>)}

\* documents that violate rules of several families
PoolConfig ==
    {Assets(100, 0, YearEnd, <<>>),
     Liabilities(97, 0, YearEnd, <<>>),
     Assets(-5, 0, PriorYearEnd, <<>>),
     NumFact(Gaap("AssetsCurrent"), FALSE, -5, 0, PriorYearEnd, <<>>),
     PeriodEndDate(10, <<>>)}

\* values of the suppressErrors script parameter
SuppressParams ==
    {None,
     Some(<<>>),
     Some(RuleId("0015", "1")),
     Some(FamilyId("0015")),
     Some(<<" ">> \o RuleId("0004", "16") \o <<" ", "|", " ">>
          \o RuleId("0036", "1")),
     Some(RuleId("0004", "16") \o <<"|", "|">>)}

TemplateTables ==
    {TemplatesFull,
     Without(TemplatesFull, {RuleId("0036", "1")}),
     Without(TemplatesFull, {FamilyId("0015")}),
     Without(TemplatesFull, {RuleId("0004", "16")})}

Idle == [fn |-> "none"]

InitRun(inst, ps, templates, durations) ==
    /\ instance = inst
    /\ params = ps
    /\ msg_templates = templates
    /\ dqc_0006_period_focus_durations = durations
    /\ dqc_0009_facts = Rows_0009
    /\ dqc_0015_facts = Rows_0015
    /\ dqc_0015_member_exclusions = Exclusions_0015
    /\ suppress_errors = {}
    /\ namespaces = [p \in {} |-> <<>>]
    /\ error_log = <<>>
    /\ pc = "start"
    /\ raised = NoError
    /\ call = Idle
    /\ ret = Idle

InitEquality ==
    \E facts \in SeqsUpTo(PoolEquality, MaxFacts) :
        InitRun(Instance(facts, StdSchemas, AllConcepts, "raise"),
                None, TemplatesFull, Durations)

InitConfig ==
    \E facts \in SeqsUpTo(PoolConfig, MaxFacts) :
    \E ps \in SuppressParams : \E templates \in TemplateTables :
        InitRun(Instance(facts, StdSchemas, AllConcepts, "raise"),
                ps, templates, Durations)

InitNone == InitRun(NoInstance, None, TemplatesFull, Durations)

\* discoverable taxonomy sets in which something the rules look up is missing
Dts(schemas, concepts) == [schemas |-> schemas, concepts |-> concepts]

DtsVariants ==
    {Dts(StdSchemas, AllConcepts \ {c}) :
        c \in {LegalEntityAxis, Dei("DocumentType"), Dei("DocumentPeriodEndDate"),
               Dei("DocumentFiscalPeriodFocus"),
               Dei("EntityCommonStockSharesOutstanding"),
               Gaap("ScenarioForecastMember")}}
    \cup {Dts(<<DeiNs, ExtNs>>, {c \in AllConcepts : c.ns = DeiNs}),
          Dts(<<GaapNs, ExtNs>>, {c \in AllConcepts : c.ns = GaapNs}),
          Dts(<<OddDeiNs, GaapNs>>, {c \in AllConcepts : c.ns = GaapNs})}

\* a fact can only be of a concept, and carry a dimension, that the DTS defines
Defines(dts, fact) ==
    /\ \E c \in dts.concepts : c.ns = fact.ns /\ c.name = fact.name
    /\ \A i \in 1 .. Len(fact.dims) :
          fact.dims[i].dim = "ConsolidationItemsAxis"
          \/ \E c \in dts.concepts : c.name = fact.dims[i].dim

Forecast == Dim("StatementScenarioAxis", "ScenarioForecastMember")

PoolDts ==
    {TextFact(Dei("EntityCommonStockSharesOutstanding"), <<"1000">>, 0,
              YearEnd, <<>>),
     PeriodEndDate(0, <<>>),
     TextFact(Dei("DocumentType"), <<"10-K">>, 0, Duration(18262, 18628), <<>>),
     TextFact(Dei("EntityRegistrantName"), <<"ABC">>, 0,
              Duration(18262, 18628), <<Subsidiary>>),
     Assets(100, 0, YearEnd, <<>>),
     Liabilities(97, 0, YearEnd, <<Forecast>>)}

InitDts ==
    \E dts \in DtsVariants : \E api_none \in {"raise", "nomatch"} :
    \E facts \in SeqsUpTo({f \in PoolDts : Defines(dts, f)}, MaxFacts) :
        InitRun(Instance(facts, dts.schemas, dts.concepts, api_none),
                None, TemplatesFull, Durations)

\* filings with a document type, fiscal period focus facts and facts whose
\* period lasts `days` days
Lasting(days) == Duration(18262, 18262 + days)

DocumentType(value) ==
    TextFact(Dei("DocumentType"), value, 0, Lasting(90), <<>>)
DocumentFiscalPeriodFocus(value, days, dims) ==
    TextFact(Dei("DocumentFiscalPeriodFocus"), value, 0, Lasting(days), dims)
EntityRegistrantName(period, dims) ==
    TextFact(Dei("EntityRegistrantName"), <<"ABC">>, 0, period, dims)

DocumentTypes ==
    {<<>>,
     <<DocumentType(<<"10-Q">>)>>,
     <<DocumentType(<<"10-K", "T">>)>>,
     <<DocumentType(<<"10-K", "T", "/", "A">>)>>,
     <<DocumentType(<<"10-Q">>), DocumentType(<<"10-Q">>)>>}

PeriodFocuses ==
    {<<>>,
     <<DocumentFiscalPeriodFocus(<<"Q1">>, 90, <<>>)>>,
     <<DocumentFiscalPeriodFocus(<<"H1">>, 90, <<>>)>>,
     <<DocumentFiscalPeriodFocus(<<"Q1">>, 90, <<>>),
       DocumentFiscalPeriodFocus(<<"FY">>, 365, <<Subsidiary>>)>>,
     <<DocumentFiscalPeriodFocus(<<"FY">>, 90, <<>>),
       DocumentFiscalPeriodFocus(<<"Q1">>, 90, <<>>)>>}

PoolDuration ==
    {EntityRegistrantName(Lasting(45), <<>>),
     EntityRegistrantName(Lasting(80), <<>>),
     EntityRegistrantName(Lasting(100), <<>>),
     EntityRegistrantName(Lasting(101), <<>>),
     EntityRegistrantName(Lasting(90), <<Subsidiary>>),
     EntityRegistrantName(Lasting(45), <<Dim("LegalEntityAxis", "ParentMember")>>),
     EntityRegistrantName(YearEnd, <<>>),
     TextFact(PolicyTextBlock, <<"text">>, 0, Lasting(45), <<>>),
     NumFact(Gaap("Assets"), FALSE, 100, 0, Lasting(45), <<>>)}

InitDuration ==
    \E doctype \in DocumentTypes : \E focus \in PeriodFocuses :
    \E facts \in SeqsUpTo(PoolDuration, MaxFacts) :
        InitRun(Instance(doctype \o focus \o facts, StdSchemas, AllConcepts,
                         "raise"),
                None, TemplatesFull, Durations)

\* member-exclusion tables and facts with negative values
ContainsText(dim, text) == [test |-> "Contains the text", dim |-> dim, text |-> text]
EqualsName(dim, name) == [test |-> "Equals", dim |-> dim, name |-> name]
Both(arg1, arg2) == [test |-> "AND", arg1 |-> arg1, arg2 |-> arg2]
Either(arg1, arg2) == [test |-> "OR", arg1 |-> arg1, arg2 |-> arg2]

ExclusionTables ==
    {<<>>,
     Exclusions_0015,
     << EqualsName("Member", "EliminationsMember") >>,
     << ContainsText("Axis", <<"scenario">>) >>,
     << Both(EqualsName("Axis", "ConsolidationItemsAxis"),
             ContainsText("Member", <<"adjustment">>)),
        Either(EqualsName("Member", "SegmentAMember"),
               EqualsName("Axis", "LegalEntityAxis")) >>,
     << Either(ContainsText("Member", <<"forecast">>),
               [test |-> "Starts with", dim |-> "Member", text |-> <<"segment">>]) >>}

Restatement == Dim("ConsolidationItemsAxis", "RestatementAdjustmentMember")
SegmentA == Dim("StatementBusinessSegmentsAxis", "SegmentAMember")

PoolNegative ==
    {Assets(-5, 0, YearEnd, <<>>),
     Assets(-5, 0, YearEnd, <<Eliminations>>),
     Assets(-5, 0, YearEnd, <<Restatement>>),
     Assets(-5, 0, YearEnd, <<Forecast, SegmentA>>),
     Assets(-5, 0, YearEnd, <<Subsidiary, Restatement>>),
     Assets(0, 0, YearEnd, <<>>),
     NumFact(Gaap("Assets"), TRUE, -5, 0, YearEnd, <<>>),
     NumFact(Gaap("AssetsCurrent"), FALSE, -5, 0, YearEnd, <<SegmentA>>),
     Liabilities(-5, 0, YearEnd, <<>>)}

InitNegative ==
    \E exclusions \in ExclusionTables :
    \E facts \in SeqsUpTo(PoolNegative, MaxFacts) :
        /\ instance = Instance(facts, StdSchemas, AllConcepts, "raise")
        /\ params = None
        /\ msg_templates = TemplatesFull
        /\ dqc_0006_period_focus_durations = Durations
        /\ dqc_0009_facts = Rows_0009
        /\ dqc_0015_facts = Rows_0015
        /\ dqc_0015_member_exclusions = exclusions
        /\ suppress_errors = {}
        /\ namespaces = [p \in {} |-> <<>>]
        /\ error_log = <<>>
        /\ pc = "start"
        /\ raised = NoError
        /\ call = Idle
        /\ ret = Idle

\* pairs of facts whose dimensions agree, differ, or extend one another
PoolPairs ==
    {Assets(100, 0, YearEnd, <<>>),
     Assets(100, 0, YearEnd, <<Eliminations>>),
     Assets(100, 0, YearEnd, <<Eliminations, Subsidiary>>),
     Assets(100, 0, PriorYearEnd, <<Eliminations>>),
     Liabilities(97, 0, YearEnd, <<Eliminations>>),
     Liabilities(97, 0, YearEnd, <<Subsidiary, Eliminations>>),
     Liabilities(97, 0, YearEnd, <<Subsidiary>>),
     NumFact(Gaap("AssetsCurrent"), FALSE, 120, 0, YearEnd, <<Eliminations>>),
     NumFact(Gaap("AssetsCurrent"), FALSE, 120, 0, YearEnd, <<>>),
     NumFact(Gaap("AssetsCurrent"), TRUE, 120, 0, YearEnd, <<Eliminations>>)}

InitPairs ==
    \E facts \in SeqsUpTo(PoolPairs, MaxFacts) :
        InitRun(Instance(facts, StdSchemas, AllConcepts, "raise"), None,
                TemplatesFull, Durations)

\* filings with several DocumentPeriodEndDate facts, for the default legal
\* entity and for a subsidiary, in contexts that end on different days,
\* followed by at most one fact that the context-date rules test
MaxPeriodEnds == 2

SubsequentEvent == Dim("SubsequentEventTypeAxis", "SubsequentEventMember")

SharesOutstanding(period, dims) ==
    TextFact(Dei("EntityCommonStockSharesOutstanding"), <<"1000">>, 0, period, dims)

PoolPeriodEnds ==
    {PeriodEndDate(0, <<>>), PeriodEndDate(2, <<>>),
     PeriodEndDate(-1, <<Subsidiary>>), PeriodEndDate(5, <<Subsidiary>>)}

PoolDated ==
    {SharesOutstanding(YearEnd, <<>>),
     SharesOutstanding(YearEnd, <<Subsidiary>>),
     SharesOutstanding(Instant(18640), <<>>),
     SharesOutstanding(Forever, <<>>),
     Assets(100, 0, YearEnd, <<SubsequentEvent>>),
     Assets(100, 0, Instant(18629), <<Subsidiary, SubsequentEvent>>),
     Assets(100, 0, Instant(18640), <<SubsequentEvent>>),
     Liabilities(97, 0, YearEnd, <<Forecast>>),
     Liabilities(97, 0, Duration(18628, 18634), <<Forecast, Subsidiary>>),
     Liabilities(97, 0, Forever, <<Forecast>>),
     TextFact(Dei("DocumentType"), <<"10-K">>, 0, Duration(18262, 18628), <<>>),
     TextFact(Dei("EntityRegistrantName"), <<"ABC">>, 0, Duration(18262, 18628),
              <<Subsidiary>>),
     Assets(100, 0, YearEnd, <<>>)}

InitPeriodEnds ==
    \E ends \in SeqsUpTo(PoolPeriodEnds, MaxPeriodEnds) :
    \E dated \in {<<>>} \cup {<<f>> : f \in PoolDated} :
        InitRun(Instance(ends \o dated, StdSchemas, AllConcepts, "raise"), None,
                TemplatesFull, Durations)

Init ==
    \/ InitEquality \/ InitConfig \/ InitDts \/ InitDuration \/ InitNegative
    \/ InitPairs \/ InitPeriodEnds
    \/ InitNone

Next ==
    \/ validate_start
    \/ dqc_0004 \/ dqc_0005 \/ dqc_0006 \/ dqc_0009
    \/ dqc_0015 \/ dqc_0033 \/ dqc_0036

Spec == Init /\ [][Next]_vars

\* on_xbrl_finished called once more in the same interpreter, for the same
\* document and tables: ret keeps what the first run appended to the log and
\* how it ended, the locals of the first run are gone
validate_again ==
    /\ pc \in {"done", "aborted"}
    /\ ret = Idle
    /\ ret' = [fn |-> "validate", log |-> error_log, raised |-> raised,
               pc |-> pc]
    /\ pc' = "start"
    /\ raised' = NoError
    /\ suppress_errors' = {}
    /\ namespaces' = [p \in {} |-> <<>>]
    /\ UNCHANGED <<Inputs, error_log, call>>

NextTwice == Next \/ validate_again

SpecTwice == Init /\ [][NextTwice]_vars

(***************************************************************************)
(* The pure functions, called on their own: decimal_comparison,            *)
(* equal_within_tolerance and create_error (one action per iteration of    *)
(* its scanning loop).                                                     *)
(***************************************************************************)
MaxCoef == 12
MaxDecimals == 1
MaxIterations == 4

\* numeric facts as decimal_comparison reads them
Numeric(v, decimals) == [numeric_value |-> v, decimals |-> decimals]

LargeFacts ==
    {Numeric(Dec(c, 0), d) :
        c \in {532000000, 532300000, 532500000, 532500001, 533500000,
               534000000, 534000001, 534500001},
        d \in {-6, -5, 0, INF}}

SmallValues == {Dec(c, e) : c \in -MaxCoef .. MaxCoef, e \in {-1, 0}}
SmallFacts ==
    {Numeric(v, d) : v \in SmallValues, d \in (-1 .. MaxDecimals) \cup {INF}}
PivotFacts == {f \in SmallFacts : f.numeric_value.coef \in {-5, 0, 5, MaxCoef}}

ComparisonCalls ==
    {[fn |-> "decimal_comparison", fact1 |-> f1, fact2 |-> f2, cmp |-> c] :
        f1 \in LargeFacts, f2 \in LargeFacts,
        c \in {"equal_within_tolerance", "less_or_equal"}}
    \cup
    {[fn |-> "decimal_comparison", fact1 |-> f1, fact2 |-> f2, cmp |-> c] :
        f1 \in SmallFacts, f2 \in PivotFacts,
        c \in {"equal_within_tolerance", "less_or_equal"}}

ToleranceCalls ==
    {[fn |-> "equal_within_tolerance", val1 |-> v1, val2 |-> v2, decimals |-> d] :
        v1 \in {Dec(c, e) : c \in -3 .. 3, e \in {-1, 0, 1}},
        v2 \in {Dec(c, e) : c \in -MaxCoef .. MaxCoef, e \in {-1, 0, 1}},
        d \in {None} \cup {Some(k) : k \in -1 .. MaxDecimals}}

\* the arguments of create_error
SampleFacts ==
    {[Assets(100, 0, YearEnd, <<>>) EXCEPT !.id = 1],
     [Liabilities(97, -1, Duration(18262, 18628), <<Eliminations, Subsidiary>>)
        EXCEPT !.id = 1],
     [TextFact(Dei("DocumentType"), <<"10-K">>, 0, Forever, <<>>) EXCEPT !.id = 1],
     [NumFact(Gaap("Assets"), TRUE, 0, 0,
              [type |-> "START_END", start |-> DateTime(18262, 3600),
               end |-> DateTime(18628, 0)], <<>>) EXCEPT !.id = 1],
     [Assets(100, 0, Instant(DateTimeMin.day), <<>>) EXCEPT !.id = 1]}

ConceptKey == <<"us-gaap", ":", "SubsequentEventTypeAxis">>

SampleKargs(f) ==
    (<<"fact1">> :> FactArg(f))
    @@ (ConceptKey :> ConceptArg(SubsequentEventTypeAxis))
    @@ (<<"ruleVersion">> :> [kind |-> "RuleInfo", info |-> RuleInfo(Version)])
    @@ (<<"count">> :> [kind |-> "Scalar", str |-> <<"3">>])

Properties ==
    {<<"name">>, <<"localName">>, <<"label">>, <<"value">>, <<"period">>,
     <<"dimensions">>, <<"unit">>, <<"decimals">>, <<"colour">>,
     <<"fact", ".", "value">>,
     <<"period", ".", "startDate">>, <<"period", ".", "endDate">>,
     <<"period", ".", "instant">>, <<"period", ".", "durationDays">>,
     <<"period", ".", "week">>}

\* ${key.property} and ${key}
Placeholders ==
    {<<"$", "{">> \o k \o <<".">> \o q \o <<"}">> :
        k \in {<<"fact1">>, ConceptKey, <<"ruleVersion">>, <<"count">>,
               <<"fact9">>},
        q \in Properties}
    \cup {<<"$", "{">> \o k \o <<"}">> :
            k \in {<<"fact1">>, ConceptKey, <<"ruleVersion">>, <<"count">>}}

Messages ==
    Placeholders
    \cup {<<"Value of ">> \o ph \o <<" is wrong">> : ph \in Placeholders}
    \cup {ph \o <<" and ">> \o Ph2("fact1", "name") : ph \in Placeholders}
    \cup {<<"no placeholder">>,
          <<"$", "{", "fact1", ".", "name", "x">>,
          <<"$", "{", "fact1", ".", "name">>,
          Ph2("fact1", "name") \o <<"$", "{", "count">>}

ErrorCalls ==
    {[fn |-> "create_error", msg |-> m, kargs |-> SampleKargs(f)] :
        m \in Messages, f \in SampleFacts}

\* the arguments of format_date: midnights and other times of day, at the
\* ends of months and years and at the ends of the range of datetime
FormatCalls ==
    {[fn |-> "format_date", val |-> DateTime(day, secs), is_end |-> is_end] :
        day \in {DateTimeMin.day, DateTimeMin.day + 1, -1, 0, 59, 11017, 18627,
                 18628, 47541, DateTimeMax.day},
        secs \in {0, 1, 3661, 86399},
        is_end \in BOOLEAN}

Pending == [fn |-> "pending"]

InitFn ==
    /\ call \in ComparisonCalls \cup ToleranceCalls \cup ErrorCalls
                 \cup FormatCalls
    /\ ret = IF call.fn = "create_error"
             THEN [fn |-> "scanning", st |-> ScanInit, iterations |-> 0]
             ELSE Pending
    /\ instance = NoInstance
    /\ params = None
    /\ msg_templates = TemplatesFull
    /\ dqc_0006_period_focus_durations = Durations
    /\ dqc_0009_facts = Rows_0009
    /\ dqc_0015_facts = Rows_0015
    /\ dqc_0015_member_exclusions = Exclusions_0015
    /\ suppress_errors = {}
    /\ namespaces = [p \in {} |-> <<>>]
    /\ error_log = <<>>
    /\ pc = "idle"
    /\ raised = NoError

RunVars == <<Inputs, suppress_errors, namespaces, error_log, pc, raised>>

\* the two values that decimal_comparison hands to cmp
ComparedValue(fact, decimals) ==
    IF decimals = INF THEN fact.numeric_value
    ELSE round_to_decimals(fact.numeric_value, decimals)

call_decimal_comparison ==
    /\ call.fn = "decimal_comparison" /\ ret = Pending
    /\ ret' = [fn |-> "returned",
               value |-> decimal_comparison(call.fact1, call.fact2, call.cmp),
               val1 |-> ComparedValue(call.fact1,
                            Min2(call.fact1.decimals, call.fact2.decimals)),
               val2 |-> ComparedValue(call.fact2,
                            Min2(call.fact1.decimals, call.fact2.decimals))]
    /\ UNCHANGED <<RunVars, call>>

call_equal_within_tolerance ==
    /\ call.fn = "equal_within_tolerance" /\ ret = Pending
    /\ ret' = [fn |-> "returned",
               value |-> equal_within_tolerance(call.val1, call.val2,
                                                call.decimals)]
    /\ UNCHANGED <<RunVars, call>>

\* one iteration of the scanning loop of create_error
create_error_iteration ==
    /\ call.fn = "create_error" /\ ret.fn = "scanning"
    /\ ret.st.status = "scan" /\ ret.iterations < MaxIterations
    /\ ret' = [ret EXCEPT !.st = ScanStep(call.msg, call.kargs, ret.st),
                          !.iterations = @ + 1]
    /\ UNCHANGED <<RunVars, call>>

\* the return of create_error, or the exception leaving it
create_error_return ==
    /\ call.fn = "create_error" /\ ret.fn = "scanning"
    /\ ret.st.status # "scan"
    /\ ret' = [fn |-> "returned",
               error |-> ErrorOf(ret.st, 0, "ERROR", <<>>)]
    /\ UNCHANGED <<RunVars, call>>

call_format_date ==
    /\ call.fn = "format_date" /\ ret = Pending
    /\ ret' = [fn |-> "returned", value |-> format_date(call.val, call.is_end)]
    /\ UNCHANGED <<RunVars, call>>

NextFn ==
    \/ call_decimal_comparison
    \/ call_equal_within_tolerance
    \/ call_format_date
    \/ create_error_iteration
    \/ create_error_return

SpecFn == InitFn /\ [][NextFn]_vars

(***************************************************************************)
(* Properties of the numeric comparator (SpecFn).                          *)
(***************************************************************************)
\* C2, as stated: under equal_within_tolerance, 532,000,000 (decimals -6)
\* against 532,300,000 (decimals -5) compares equal and 532,000,000 against
\* 534,000,001 (both decimals -6) compares unequal.
C2_AsStated ==
    (call.fn = "decimal_comparison" /\ ret.fn = "returned"
        /\ call.cmp = "equal_within_tolerance"
        /\ call.fact1 = Numeric(Dec(532000000, 0), -6))
    => /\ call.fact2 = Numeric(Dec(532300000, 0), -5) => ret.value
       /\ call.fact2 = Numeric(Dec(534000001, 0), -6) => ~ret.value

\* C2, amended: decimal_comparison under equal_within_tolerance is true
\* exactly when the two values, each rounded half-even to the smaller of the
\* two decimals d, differ by at most 2 * 10^-d (plain equality of the
\* unrounded values when d is INF).  So 532,000,000 (-6) against 532,300,000
\* (-5) is equal, 532,000,000 against 534,000,001 (both -6) is equal as well
\* (534,000,001 rounds to 534,000,000, a difference of exactly two million),
\* and 532,000,000 against 534,500,001 (both -6) is unequal.
C2_RoundedTolerance ==
    (call.fn = "decimal_comparison" /\ ret.fn = "returned"
        /\ call.cmp = "equal_within_tolerance")
    => LET d  == Min2(call.fact1.decimals, call.fact2.decimals)
           v1 == call.fact1.numeric_value
           v2 == call.fact2.numeric_value
           e  == IF d = INF THEN Min2(v1.exp, v2.exp)
                 ELSE Min2(Min2(v1.exp, v2.exp), -d)
           u  == IF d = INF THEN 1 ELSE Pow10(-d - e)
           r1 == u * HalfEven(AtExp(v1, e), u)
           r2 == u * HalfEven(AtExp(v2, e), u)
       IN  /\ d = INF => (ret.value <=> AtExp(v1, e) = AtExp(v2, e))
           /\ d # INF => (ret.value <=> Abs(r1 - r2) <= 2 * u)
           /\ call.fact1 = Numeric(Dec(532000000, 0), -6)
              => /\ call.fact2 = Numeric(Dec(532300000, 0), -5) => ret.value
                 /\ call.fact2 = Numeric(Dec(534000001, 0), -6) => ret.value
                 /\ call.fact2 = Numeric(Dec(534500001, 0), -6) => ~ret.value

\* 532,000,000 against 534,000,001, both at decimals -6, compared equal
C2_Witness ==
    /\ call.fn = "decimal_comparison" /\ ret.fn = "returned"
    /\ call.cmp = "equal_within_tolerance"
    /\ call.fact1 = Numeric(Dec(532000000, 0), -6)
    /\ call.fact2 = Numeric(Dec(534000001, 0), -6)
    /\ ret.value

\* C3: the rounding step of decimal_comparison maps v, for finite decimals d,
\* to a multiple of 10^-d that is nearest to v, and on an exact tie to the
\* multiple with the even quotient; 532,500,000 at decimals -6 becomes
\* 532,000,000 and 532,500,001 at decimals -6 becomes 533,000,000.
C3_RoundHalfEven ==
    (call.fn = "decimal_comparison" /\ ret.fn = "returned"
        /\ Min2(call.fact1.decimals, call.fact2.decimals) # INF)
    => LET d == Min2(call.fact1.decimals, call.fact2.decimals)
           v == call.fact1.numeric_value
           r == ret.val1
           e == Min2(v.exp, -d)
           u == Pow10(-d - e)
       IN  /\ r.exp >= -d
           /\ AtExp(r, e) % u = 0
           /\ 2 * Abs(AtExp(v, e) - AtExp(r, e)) <= u
           /\ 2 * Abs(AtExp(v, e) - AtExp(r, e)) = u
              => (AtExp(r, e) \div u) % 2 = 0
           /\ (v = Dec(532500000, 0) /\ d = -6) => DecEq(r, Dec(532000000, 0))
           /\ (v = Dec(532500001, 0) /\ d = -6) => DecEq(r, Dec(533000000, 0))

\* 532,500,000, a tie at decimals -6, was rounded to 532,000,000
C3_Witness ==
    /\ call.fn = "decimal_comparison" /\ ret.fn = "returned"
    /\ call.fact1.numeric_value = Dec(532500000, 0)
    /\ Min2(call.fact1.decimals, call.fact2.decimals) = -6
    /\ DecEq(ret.val1, Dec(532000000, 0))

\* C4: equal_within_tolerance(v1, v2, d) is true exactly when
\* |v1 - v2| <= 2 * 10^-d, the bound included; without d it is v1 == v2.
C4_InclusiveTolerance ==
    (call.fn = "equal_within_tolerance" /\ ret.fn = "returned")
    => LET v1 == call.val1
           v2 == call.val2
           e  == IF call.decimals = None THEN Min2(v1.exp, v2.exp)
                 ELSE Min2(Min2(v1.exp, v2.exp), -call.decimals[1])
           diff == Abs(AtExp(v1, e) - AtExp(v2, e))
       IN  IF call.decimals = None
           THEN ret.value <=> diff = 0
           ELSE ret.value <=> diff <= 2 * Pow10(-call.decimals[1] - e)

\* a difference of exactly 2 * 10^-d compared equal
C4_Witness ==
    /\ call.fn = "equal_within_tolerance" /\ ret.fn = "returned"
    /\ call.decimals = Some(0)
    /\ call.val1 = Dec(-1, 0) /\ call.val2 = Dec(10, -1)
    /\ ret.value

(***************************************************************************)
(* Properties of create_error (SpecFn).                                    *)
(***************************************************************************)
\* C8, as stated: create_error never silently drops a placeholder: for a
\* message that is one placeholder ${param.property[.subproperty]} whose
\* argument is a Fact, a Concept, a RuleInfo or a scalar, either the
\* placeholder is resolved into the rendered message or the build fails.
C8_NeverDropsPlaceholder ==
    (call.fn = "create_error" /\ ret.fn = "returned"
        /\ call.msg \in Placeholders)
    => \/ ret.error.exc # ""
       \/ ret.error.text # <<>>

(***************************************************************************)
(* Properties of validate (Spec).                                          *)
(***************************************************************************)
\* the rule id in the headline '[%s] %s' of a logged diagnostic
CodeOf(e) == SubSeq(e.text, 2, 8)

\* the diagnostics of rule `code` in the log
Logged(code) == {i \in 1 .. Len(error_log) : CodeOf(error_log[i]) = code}

\* the diagnostics of rule `code` reported on fact `f`
LoggedOn(code, f) == {i \in Logged(code) : error_log[i].location = f.id}

\* diagnostic e points at fact f
References(e, f) == e.location = f.id \/ \E q \in e.params : q.loc = f.id

\* the document is one non-nil Assets fact of 100 and one non-nil
\* LiabilitiesAndStockholdersEquity fact of v, both with decimals 0 and in
\* the same context; the rule is not suppressed
BalanceSheet(v) ==
    /\ instance.loaded /\ Len(instance.facts) = 2
    /\ RuleId("0004", "16") \notin suppress_errors
    /\ RuleId("0004", "16") \in DOMAIN msg_templates
    /\ \E i, j \in 1 .. 2 :
          /\ i # j
          /\ instance.facts[i].name = "Assets"
          /\ instance.facts[j].name = "LiabilitiesAndStockholdersEquity"
          /\ ~instance.facts[i].nil /\ ~instance.facts[j].nil
          /\ instance.facts[i].numeric_value = Dec(100, 0)
          /\ instance.facts[j].numeric_value = Dec(v, 0)
          /\ instance.facts[i].decimals = 0 /\ instance.facts[j].decimals = 0
          /\ instance.facts[i].period = instance.facts[j].period
          /\ DimSet(instance.facts[i]) = DimSet(instance.facts[j])

OneOnBoth ==
    /\ Cardinality(Logged(RuleId("0004", "16"))) = 1
    /\ \A i \in Logged(RuleId("0004", "16")) :
          References(error_log[i], instance.facts[1])
          /\ References(error_log[i], instance.facts[2])

\* C1, as stated: with Assets = 100 and LiabilitiesAndStockholdersEquity = 99
\* validation reports exactly one DQC.US.0004.16 diagnostic that references
\* both facts; with 100 it reports none.
C1_AsStated ==
    pc = "done"
    => /\ BalanceSheet(99) => OneOnBoth
       /\ BalanceSheet(100) => Logged(RuleId("0004", "16")) = {}

\* C1, amended: with Assets = 100 and LiabilitiesAndStockholdersEquity = v in
\* the same context, both decimals 0, validation reports exactly one
\* DQC.US.0004.16 diagnostic referencing both facts when the values differ
\* by more than the tolerance of 2 (v = 97, 103), and none when they differ
\* by 2 or less (v = 98, 99, 100).
C1_OutsideTolerance ==
    pc = "done"
    => \A v \in 95 .. 105 :
          BalanceSheet(v)
          => IF Abs(100 - v) > 2 THEN OneOnBoth
             ELSE Logged(RuleId("0004", "16")) = {}

\* Assets = 100 against LiabilitiesAndStockholdersEquity = 97: one diagnostic
C1_Witness == pc = "done" /\ BalanceSheet(97) /\ OneOnBoth

\* C5: no diagnostic of a rule id in the suppression set is ever in the log;
\* a family whose only rule id is suppressed ends without appending anything
\* and without looking a template up (DQC.US.0036.1 with no template at all),
\* and with only DQC.US.0015.1 suppressed a negative AssetsCurrent fact still
\* gets its DQC.US.0015.2 diagnostic.
C5_SuppressedBeforeLookup ==
    /\ [](\A i \in 1 .. Len(error_log) : CodeOf(error_log[i]) \notin suppress_errors)
    /\ [][(pc = "dqc_0036" /\ RuleId("0036", "1") \in suppress_errors)
            => (error_log' = error_log /\ pc' = "done")]_vars
    /\ []((/\ pc = "done"
           /\ suppress_errors = {RuleId("0015", "1")}
           /\ FamilyId("0015") \in DOMAIN msg_templates)
          => \A i \in 1 .. Len(instance.facts) :
                (instance.facts[i].name = "AssetsCurrent"
                    /\ instance.facts[i].numeric_value.coef < 0)
                => Cardinality(LoggedOn(RuleId("0015", "2"),
                                        instance.facts[i])) = 1)

\* only DQC.US.0015.1 is suppressed; of a negative Assets fact and a negative
\* AssetsCurrent fact the second alone is reported
C5_Witness ==
    /\ pc = "done"
    /\ suppress_errors = {RuleId("0015", "1")}
    /\ \E i, j \in 1 .. Len(instance.facts) :
          /\ instance.facts[i].name = "Assets"
          /\ instance.facts[i].numeric_value.coef < 0
          /\ instance.facts[j].name = "AssetsCurrent"
          /\ instance.facts[j].numeric_value.coef < 0
    /\ Logged(RuleId("0015", "1")) = {}
    /\ Logged(RuleId("0015", "2")) # {}

\* C6, as stated: a violation is suppressed when the list holds its exact
\* rule code or that code with the trailing test suffix stripped.
C6_AsStated ==
    \A i \in 1 .. Len(error_log) :
        /\ CodeOf(error_log[i]) \notin suppress_errors
        /\ RSplit1Head(CodeOf(error_log[i]), ".") \notin suppress_errors

\* C6, amended: a violation is suppressed exactly when the |-delimited list
\* holds, after stripping blanks, its exact rule code.  A negative Assets
\* fact (without an excluded member) has its DQC.US.0015.1 diagnostic if and
\* only if DQC.US.0015.1 itself is listed; listing DQC.US.0015 suppresses
\* nothing.
C6_ExactCodeOnly ==
    /\ (pc # "start" /\ params = Some(<<" ">> \o RuleId("0004", "16")
                                       \o <<" ", "|", " ">> \o RuleId("0036", "1")))
       => suppress_errors = {RuleId("0004", "16"), RuleId("0036", "1")}
    /\ (pc = "done" /\ FamilyId("0015") \in DOMAIN msg_templates)
       => \A i \in 1 .. Len(instance.facts) :
             (instance.facts[i].name = "Assets" /\ ~instance.facts[i].nil
                 /\ instance.facts[i].numeric_value.coef < 0
                 /\ instance.facts[i].dims = <<>>)
             => (LoggedOn(RuleId("0015", "1"), instance.facts[i]) = {}
                 <=> RuleId("0015", "1") \in suppress_errors)

\* DQC.US.0015 is listed and a DQC.US.0015.1 diagnostic is in the log
C6_Witness ==
    /\ pc = "done"
    /\ FamilyId("0015") \in suppress_errors
    /\ Logged(RuleId("0015", "1")) # {}

\* C7, as stated: when validate aborts on a rule code without a message
\* template (KeyError), no diagnostic has been appended to the sink.
C7_AbortBeforeOutput ==
    (pc = "aborted" /\ raised.exc = "KeyError") => error_log = <<>>

\* the DTS lacks a concept, a dimension or a namespace that the rules look up
DtsIncomplete ==
    /\ instance.loaded
    /\ \/ instance.dts.concepts # AllConcepts
       \/ instance.dts.taxonomy_schemas # StdSchemas

\* C9, as stated: when a concept, dimension or namespace a rule needs cannot
\* be resolved, no rule raises an error and the remaining rules still run
\* (here for a document API that matches nothing when it is handed None).
C9_GracefulDegradation ==
    (DtsIncomplete /\ instance.api_none = "nomatch") => pc # "aborted"

\* the legal entity of a fact: its LegalEntityAxis member, else the default
\* member of the axis
LegalEntityOf(f) ==
    IF \E i \in 1 .. Len(f.dims) : f.dims[i].dim = "LegalEntityAxis"
    THEN (CHOOSE d \in DimSet(f) : d.dim = "LegalEntityAxis").member
    ELSE LegalEntityAxis.default_member

\* the places of the DocumentFiscalPeriodFocus facts of a legal entity
FocusPlaces(entity) ==
    {j \in 1 .. Len(instance.facts) :
        /\ instance.facts[j].ns = DeiNs
        /\ instance.facts[j].name = "DocumentFiscalPeriodFocus"
        /\ LegalEntityOf(instance.facts[j]) = entity}

\* the fiscal period focus that applies to fact f: <<>> when there is none
AppliedFocus(f) ==
    LET own == FocusPlaces(LegalEntityOf(f))
        dflt == FocusPlaces(LegalEntityAxis.default_member)
        last(S) == CHOOSE j \in S : \A k \in S : k <= j
    IN  IF own # {} THEN <<instance.facts[last(own)].normalized_value>>
        ELSE IF dflt # {} THEN <<instance.facts[last(dflt)].normalized_value>>
        ELSE <<>>

\* the days between the start and the end of the period of f
DaysOf(f) ==
    IF f.period.type = "START_END" THEN f.period.end.day - f.period.start.day
    ELSE IF f.period.type = "INSTANT" THEN 0 ELSE MaxSize

\* one of the listed DEI facts or a text-block-typed fact
CheckedFact(f) ==
    \/ f.ns = DeiNs /\ \E k \in 1 .. Len(fact_names) : f.name = fact_names[k]
    \/ f.textblock

\* a filing with exactly one DocumentType fact that is no transition filing,
\* on which dqc_0006 has run; the rule is not suppressed and has a template
RegularFiling ==
    /\ pc \in {"dqc_0009", "dqc_0015", "dqc_0033", "dqc_0036", "done"}
    /\ instance.dts.concepts = AllConcepts
    /\ instance.dts.taxonomy_schemas = StdSchemas
    /\ RuleId("0006", "14") \notin suppress_errors
    /\ FamilyId("0006") \in DOMAIN msg_templates
    /\ LET types == {i \in 1 .. Len(instance.facts) :
                        instance.facts[i].ns = DeiNs
                        /\ instance.facts[i].name = "DocumentType"}
       IN  /\ Cardinality(types) = 1
           /\ \A i \in types :
                 LET value == instance.facts[i].normalized_value
                 IN  /\ value[Len(value)] # "T"
                     /\ ~(Len(value) >= 3
                          /\ SubSeq(value, Len(value) - 2, Len(value))
                             = <<"T", "/", "A">>)

\* C10: in a filing with exactly one DocumentType fact whose value does not
\* end in "T" or "T/A", every checked fact whose legal entity's fiscal period
\* focus (entity-specific, else that of the axis default member) has a
\* configured range [min,max] has one DQC.US.0006.14 diagnostic if its period
\* duration in days lies outside the inclusive range, and none otherwise.
C10_DurationOutsideRange ==
    RegularFiling
    => \A i \in 1 .. Len(instance.facts) :
          LET f == instance.facts[i]
              focus == AppliedFocus(f)
          IN  (CheckedFact(f) /\ focus # <<>>
                  /\ focus[1] \in DOMAIN dqc_0006_period_focus_durations)
              => Cardinality(LoggedOn(RuleId("0006", "14"), f))
                 = IF DaysOf(f) < dqc_0006_period_focus_durations[focus[1]][1]
                      \/ DaysOf(f) > dqc_0006_period_focus_durations[focus[1]][2]
                   THEN 1 ELSE 0

\* with Q1 = [80,100] a 45-day fact has one diagnostic and the 90-day fiscal
\* period focus fact has none
C10_Witness ==
    /\ RegularFiling /\ pc = "done"
    /\ dqc_0006_period_focus_durations[<<"Q1">>] = <<80, 100>>
    /\ \E i, j \in 1 .. Len(instance.facts) :
          /\ instance.facts[i].name = "EntityRegistrantName"
          /\ AppliedFocus(instance.facts[i]) = <<<<"Q1">>>>
          /\ DaysOf(instance.facts[i]) = 45
          /\ Cardinality(LoggedOn(RuleId("0006", "14"), instance.facts[i])) = 1
          /\ instance.facts[j].name = "DocumentFiscalPeriodFocus"
          /\ instance.facts[j].normalized_value = <<"Q1">>
          /\ DaysOf(instance.facts[j]) = 90
          /\ LoggedOn(RuleId("0006", "14"), instance.facts[j]) = {}

\* rule `rule` of the member-exclusion table is satisfied by a dimension
\* aspect: its test, read against the member name for a Member rule and the
\* dimension name otherwise
RECURSIVE Satisfies(_, _)
Satisfies(rule, aspect) ==
    LET name == IF rule.dim = "Member" THEN aspect.member ELSE aspect.dim
    IN  CASE rule.test = "AND" ->
               Satisfies(rule.arg1, aspect) /\ Satisfies(rule.arg2, aspect)
          [] rule.test = "OR" ->
               Satisfies(rule.arg1, aspect) \/ Satisfies(rule.arg2, aspect)
          [] rule.test = "Equals" -> name = rule.name
          [] rule.test = "Contains the text" ->
               \E i \in 1 .. Len(NameChars(name)) :
               \E j \in i .. Len(NameChars(name)) :
                   SubSeq(NameChars(name), i, j) = rule.text

\* every expression of the table is made of the four tests
RECURSIVE KnownTests(_)
KnownTests(rule) ==
    \/ rule.test \in {"Equals", "Contains the text"}
    \/ /\ rule.test \in {"AND", "OR"}
       /\ KnownTests(rule.arg1) /\ KnownTests(rule.arg2)

ExcludedMember(f) ==
    \E i \in 1 .. Len(f.dims) : \E k \in 1 .. Len(dqc_0015_member_exclusions) :
        Satisfies(dqc_0015_member_exclusions[k], f.dims[i])

\* dqc_0015 has run on a complete taxonomy, nothing is suppressed and every
\* rule has a template
NegativeChecked ==
    /\ pc \in {"dqc_0033", "dqc_0036", "done"}
    /\ instance.dts.concepts = AllConcepts
    /\ instance.dts.taxonomy_schemas = StdSchemas
    /\ suppress_errors = {}
    /\ FamilyId("0015") \in DOMAIN msg_templates
    /\ \A k \in 1 .. Len(dqc_0015_member_exclusions) :
          KnownTests(dqc_0015_member_exclusions[k])

\* C11: for every (rule id, concept) row of the dqc_0015 table and every
\* non-nil fact of that concept, one diagnostic with that rule id is reported
\* on the fact if its numeric value is below zero and no dimension aspect of
\* it satisfies a member-exclusion expression, and none otherwise.
C11_NegativeUnlessExcluded ==
    NegativeChecked
    => \A r \in 1 .. Len(dqc_0015_facts) : \A i \in 1 .. Len(instance.facts) :
          LET f == instance.facts[i]
          IN  (f.name = dqc_0015_facts[r][3] /\ f.prefix = dqc_0015_facts[r][2]
                 /\ ~f.nil)
              => Cardinality(LoggedOn(dqc_0015_facts[r][1], f))
                 = IF f.numeric_value.coef < 0 /\ ~ExcludedMember(f)
                   THEN 1 ELSE 0

\* an Assets fact of -5 without dimensions is reported; an Assets fact of -5
\* with an excluded member is not
C11_Witness ==
    /\ NegativeChecked /\ pc = "done"
    /\ \E i, j \in 1 .. Len(instance.facts) :
          /\ instance.facts[i].name = "Assets" /\ instance.facts[j].name = "Assets"
          /\ instance.facts[i].numeric_value = Dec(-5, 0)
          /\ instance.facts[j].numeric_value = Dec(-5, 0)
          /\ ~instance.facts[i].nil /\ ~instance.facts[j].nil
          /\ instance.facts[i].dims = <<>>
          /\ ExcludedMember(instance.facts[j])
          /\ Cardinality(LoggedOn(RuleId("0015", "1"), instance.facts[i])) = 1
          /\ LoggedOn(RuleId("0015", "1"), instance.facts[j]) = {}

\* the rule ids of the pairwise rules, with the concept compared against
PairwiseRules ==
    {<<RuleId("0004", "16"), "LiabilitiesAndStockholdersEquity">>}
    \cup {<<dqc_0009_facts[r][1], dqc_0009_facts[r][5]>> :
            r \in 1 .. Len(dqc_0009_facts)}

\* the facts that may stand as fact2 next to fact1 under a pairwise rule
ExactPartners(f1, name2) ==
    {j \in 1 .. Len(instance.facts) :
        /\ instance.facts[j].name = name2
        /\ instance.facts[j].period = f1.period
        /\ ~instance.facts[j].nil
        /\ DimSet(instance.facts[j]) = DimSet(f1)}

\* C12: every diagnostic of dqc_0004 and dqc_0009 is reported on a non-nil
\* fact1 and points, besides fact1, only at non-nil facts of the target
\* concept with the period of fact1 and exactly its set of dimension values;
\* a fact1 has no more diagnostics of a rule than it has such partners.
C12_ExactDimensions ==
    \A rule \in PairwiseRules : \A i \in 1 .. Len(instance.facts) :
        LET f1 == instance.facts[i]
        IN  /\ Cardinality(LoggedOn(rule[1], f1))
                 <= Cardinality(ExactPartners(f1, rule[2]))
            /\ \A k \in LoggedOn(rule[1], f1) :
                  /\ ~f1.nil
                  /\ \A q \in error_log[k].params :
                        q.loc = f1.id \/ q.loc \in ExactPartners(f1, rule[2])

\* the run is over, nothing is suppressed, and the document holds an Assets
\* fact with one dimension value and an unequal
\* LiabilitiesAndStockholdersEquity fact with that value and one more: the
\* two are not compared
C12_Witness ==
    /\ pc = "done" /\ suppress_errors = {}
    /\ RuleId("0004", "16") \in DOMAIN msg_templates
    /\ \E i, j \in 1 .. Len(instance.facts) :
          /\ instance.facts[i].name = "Assets" /\ ~instance.facts[i].nil
          /\ instance.facts[j].name = "LiabilitiesAndStockholdersEquity"
          /\ ~instance.facts[j].nil
          /\ instance.facts[i].period = instance.facts[j].period
          /\ instance.facts[i].numeric_value = Dec(100, 0)
          /\ instance.facts[j].numeric_value = Dec(97, 0)
          /\ DimSet(instance.facts[i]) = {Eliminations}
          /\ DimSet(instance.facts[j]) = {Eliminations, Subsidiary}
    /\ Logged(RuleId("0004", "16")) = {}

\* the second run of validate on the document is over
SecondRunOver == pc \in {"done", "aborted"} /\ ret.fn = "validate"

ReportedRuleIds ==
    {RuleId("0004", "16"), RuleId("0005", "17"), RuleId("0005", "48"),
     RuleId("0005", "49"), RuleId("0006", "14"), RuleId("0033", "2"),
     RuleId("0036", "1")}
    \cup {dqc_0009_facts[r][1] : r \in 1 .. Len(dqc_0009_facts)}
    \cup {dqc_0015_facts[r][1] : r \in 1 .. Len(dqc_0015_facts)}

\* line is one of the property lines: OTHER, without children, opening with
\* `opening`
PropertyLine(line, opening) ==
    /\ line.severity = "OTHER" /\ line.children = <<>>
    /\ line.location = 0
    /\ Len(line.text) >= 1 /\ line.text[1] = opening

\* block is the properties block of a diagnostic on the fact with id `loc`:
\* an OTHER line naming that fact which nests the period, dimensions, unit and
\* rule version lines
PropertiesBlock(block, loc) ==
    /\ block.severity = "OTHER"
    /\ block.text[1] = "The properties of this "
    /\ \E q \in block.params : q.key = <<"fact1", ".", "name">> /\ q.loc = loc
    /\ Len(block.children) = 4
    /\ PropertyLine(block.children[1], "Period: ")
    /\ PropertyLine(block.children[2], "Dimensions: ")
    /\ PropertyLine(block.children[3], "Unit: ")
    /\ PropertyLine(block.children[4], "Rule version: ")

\* the template record report_error uses for the diagnostic e
TemplateOf(e) ==
    IF CodeOf(e) \in DOMAIN msg_templates THEN msg_templates[CodeOf(e)]
    ELSE msg_templates[SubSeq(CodeOf(e), 1, 5)]

\* C14: every diagnostic in the log has ERROR severity, is located on a fact
\* of the document, the fact1 its properties block names, has a headline that
\* opens with the rule id in square brackets, and has as children the hint
\* (INFO, without children) exactly when the template record has one, followed
\* by one properties block (OTHER) that nests the period, dimensions, unit and
\* rule version lines.
C14_DiagnosticShape ==
    \A i \in 1 .. Len(error_log) :
        LET e == error_log[i]
        IN  /\ e.severity = "ERROR"
            /\ e.location \in 1 .. Len(instance.facts)
            /\ Len(e.text) >= 9
            /\ e.text[1] = "[" /\ CodeOf(e) \in ReportedRuleIds
            /\ e.text[9] = "] "
            /\ Len(e.children) = 1 + Len(TemplateOf(e).hint)
            /\ \A k \in 1 .. Len(e.children) - 1 :
                  /\ e.children[k].severity = "INFO"
                  /\ e.children[k].children = <<>>
            /\ PropertiesBlock(e.children[Len(e.children)], e.location)

\* the run is over and the log holds a diagnostic with a hint and one without
C14_Witness ==
    /\ pc = "done"
    /\ \E i, j \in 1 .. Len(error_log) :
          /\ Len(error_log[i].children) = 2
          /\ Len(error_log[j].children) = 1
          /\ CodeOf(error_log[i]) # CodeOf(error_log[j])

\* C15: the placeholder scan of create_error terminates for every message,
\* one with an unclosed placeholder included: text_start is the variant of
\* the loop, every iteration that does not leave the loop moves it forward,
\* so that the loop is left within Len(msg) iterations.
C15_ScanTerminates ==
    [][(ret.fn = "scanning" /\ ret'.fn = "scanning" /\ ret'.st.status = "scan")
         => ret'.st.text_start > ret.st.text_start]_vars

\* the places of the DocumentPeriodEndDate facts of a legal entity
PeriodEndPlaces(entity) ==
    {j \in 1 .. Len(instance.facts) :
        /\ instance.facts[j].ns = DeiNs
        /\ instance.facts[j].name = "DocumentPeriodEndDate"
        /\ LegalEntityOf(instance.facts[j]) = entity}

\* the legal entity whose reference date applies to fact f: its own when that
\* entity has a DocumentPeriodEndDate fact, else the default member of the axis
ReferenceEntity(f) ==
    IF PeriodEndPlaces(LegalEntityOf(f)) # {} THEN LegalEntityOf(f)
    ELSE LegalEntityAxis.default_member

\* d is the reference date of the entity: the latest context end among its
\* DocumentPeriodEndDate facts
IsReferenceDate(entity, d) ==
    /\ \E j \in PeriodEndPlaces(entity) : instance.facts[j].period.end = d
    /\ \A j \in PeriodEndPlaces(entity) : DtLe(instance.facts[j].period.end, d)

\* fact f ends before the reference date that applies to it (or on it, when
\* orEqual); a fact with a forever period never does
EndsBeforeReference(f, orEqual) ==
    /\ f.period.type # "FOREVER"
    /\ \E j \in PeriodEndPlaces(ReferenceEntity(f)) :
          /\ IsReferenceDate(ReferenceEntity(f), instance.facts[j].period.end)
          /\ \/ DtLt(f.period.end, instance.facts[j].period.end)
             \/ orEqual /\ f.period.end = instance.facts[j].period.end

HasMember(f, dim, member) ==
    \E i \in 1 .. Len(f.dims) : f.dims[i].dim = dim /\ f.dims[i].member = member

HasDimension(f, dim) == \E i \in 1 .. Len(f.dims) : f.dims[i].dim = dim

\* dqc_0005 has run on a complete taxonomy, nothing is suppressed, the rules
\* have a template and no DocumentPeriodEndDate context lasts forever
DatesChecked ==
    /\ pc \in {"dqc_0006", "dqc_0009", "dqc_0015", "dqc_0033", "dqc_0036", "done"}
    /\ instance.dts.concepts = AllConcepts
    /\ instance.dts.taxonomy_schemas = StdSchemas
    /\ suppress_errors = {}
    /\ FamilyId("0005") \in DOMAIN msg_templates
    /\ \A j \in 1 .. Len(instance.facts) :
          instance.facts[j].name = "DocumentPeriodEndDate"
          => instance.facts[j].period.type = "START_END"

Count(b) == IF b THEN 1 ELSE 0

\* C16: with the reference date of a legal entity the latest context end of
\* its DocumentPeriodEndDate facts, and the reference of a fact that of its own
\* legal entity, else that of the default member of the axis: DQC.US.0005.17
\* is reported once on an EntityCommonStockSharesOutstanding fact if it ends
\* before its reference, DQC.US.0005.48 once on a fact with a
\* SubsequentEventTypeAxis member and DQC.US.0005.49 once on a fact of the
\* forecast scenario if it ends on or before its reference, and none of them
\* otherwise; a fact with a forever period is never reported.
C16_ContextDates ==
    DatesChecked
    => \A i \in 1 .. Len(instance.facts) :
          LET f == instance.facts[i]
          IN  /\ Cardinality(LoggedOn(RuleId("0005", "17"), f))
                 = Count(/\ f.ns = DeiNs
                         /\ f.name = "EntityCommonStockSharesOutstanding"
                         /\ EndsBeforeReference(f, FALSE))
              /\ Cardinality(LoggedOn(RuleId("0005", "48"), f))
                 = Count(/\ HasDimension(f, "SubsequentEventTypeAxis")
                         /\ EndsBeforeReference(f, TRUE))
              /\ Cardinality(LoggedOn(RuleId("0005", "49"), f))
                 = Count(/\ HasMember(f, "StatementScenarioAxis",
                                      "ScenarioForecastMember")
                         /\ EndsBeforeReference(f, TRUE))
              /\ f.period.type = "FOREVER"
                 => \A k \in 1 .. Len(error_log) :
                       error_log[k].location = f.id
                       => SubSeq(CodeOf(error_log[k]), 1, 5) # FamilyId("0005")

\* the run is over; the default legal entity has two DocumentPeriodEndDate
\* facts in contexts that end on different days, and a shares-outstanding
\* fact of a subsidiary without one of its own, which ends on the earlier
\* day, is reported against the later
C16_Witness ==
    /\ DatesChecked /\ pc = "done"
    /\ Cardinality(PeriodEndPlaces(LegalEntityAxis.default_member)) = 2
    /\ \E j, k \in PeriodEndPlaces(LegalEntityAxis.default_member) :
          DtLt(instance.facts[j].period.end, instance.facts[k].period.end)
    /\ \E i \in 1 .. Len(instance.facts) :
          /\ instance.facts[i].name = "EntityCommonStockSharesOutstanding"
          /\ LegalEntityOf(instance.facts[i]) = "SubsidiaryMember"
          /\ PeriodEndPlaces("SubsidiaryMember") = {}
          /\ Cardinality(LoggedOn(RuleId("0005", "17"), instance.facts[i])) = 1

\* the number a '%Y' and a '%m', '%d', '%H', '%M' or '%S' field stands for
YearOf(field) == CHOOSE y \in 1 .. 9999 : ToString(y) = field
TwoDigits(field) == CHOOSE n \in 0 .. 99 : Pad2(n) = field

\* the day number (days since 1970-01-01) of the civil date y-m-d
DaysFromShifted(y, m, d) ==
    (y \div 400) * 146097
    + (y % 400) * 365 + (y % 400) \div 4 - (y % 400) \div 100
    + (153 * m + 2) \div 5 + d - 1
    - 719468

DaysFromCivil(y, m, d) ==
    IF m > 2 THEN DaysFromShifted(y, m - 3, d) ELSE DaysFromShifted(y - 1, m + 9, d)

\* the day and the time of day a rendered string names
RenderedDay(text) ==
    DaysFromCivil(YearOf(text[1]), TwoDigits(text[3]), TwoDigits(text[5]))
RenderedSecs(text) ==
    TwoDigits(text[7]) * 3600 + TwoDigits(text[9]) * 60 + TwoDigits(text[11])

FormatReturned == call.fn = "format_date" /\ ret.fn = "returned"

\* the string is the full timestamp of val when its time of day is not
\* midnight, else the date alone, one day back exactly when is_end is set
RendersDate(val, is_end, text) ==
    /\ Len(text) >= 5 /\ text[2] = "-" /\ text[4] = "-"
    /\ IF val.secs # 0
       THEN /\ Len(text) = 11 /\ text[6] = " " /\ text[8] = ":" /\ text[10] = ":"
            /\ RenderedDay(text) = val.day
            /\ RenderedSecs(text) = val.secs
       ELSE /\ Len(text) = 5
            /\ RenderedDay(text) = val.day - Count(is_end)
    /\ (val = DateTime(18628, 0) /\ is_end)
          => text = <<"2020", "-", "12", "-", "31">>
    /\ (val = DateTime(18628, 0) /\ ~is_end)
          => text = <<"2021", "-", "01", "-", "01">>

PeriodEndMismatch(f) ==
    /\ f.ns = DeiNs /\ f.name = "DocumentPeriodEndDate"
    /\ \/ DtLt(DateTime(f.date_value + 1 + 3, 0), f.period.end)
       \/ DtLt(f.period.end, DateTime(f.date_value + 1 - 3, 0))

\* the facts a diagnostic names next to the fact it is reported on
ReferencesOf(e) ==
    {j \in 1 .. Len(instance.facts) :
        j # e.location /\ \E q \in e.params : q.loc = j}

\* C18: a DQC.US.0033.2 diagnostic is reported on a fact of the dei namespace
\* that is none of the excluded concepts and names as its reference a
\* DocumentPeriodEndDate fact whose declared date plus one day is within 3
\* days of its own context end, that is, a fact on which no DQC.US.0036.1
\* diagnostic is reported; and once dqc_0036 has run, the facts it reports
\* are the DocumentPeriodEndDate facts that are more than 3 days off.
C18_NeverBlamedTwice ==
    /\ \A k \in Logged(RuleId("0033", "2")) :
          /\ \E i \in 1 .. Len(instance.facts) :
                /\ error_log[k].location = i
                /\ instance.facts[i].ns = DeiNs
                /\ instance.facts[i].name
                     \notin {"DocumentPeriodEndDate",
                             "EntityCommonStockSharesOutstanding",
                             "EntityPublicFloat", "EntityNumberOfEmployees",
                             "EntityListingDepositoryReceiptRatio"}
          /\ \A j \in ReferencesOf(error_log[k]) :
                /\ instance.facts[j].name = "DocumentPeriodEndDate"
                /\ ~PeriodEndMismatch(instance.facts[j])
                /\ LoggedOn(RuleId("0036", "1"), instance.facts[j]) = {}
    /\ (pc = "done" /\ suppress_errors = {}
           /\ RuleId("0036", "1") \in DOMAIN msg_templates)
       => \A j \in 1 .. Len(instance.facts) :
             PeriodEndMismatch(instance.facts[j])
             <=> LoggedOn(RuleId("0036", "1"), instance.facts[j]) # {}

\* the run is over: a DocumentPeriodEndDate fact of a subsidiary that is more
\* than 3 days off is reported by dqc_0036, and a fact of that subsidiary
\* that ends on another day is not reported by dqc_0033
C18_Witness ==
    /\ pc = "done" /\ suppress_errors = {}
    /\ msg_templates = TemplatesFull
    /\ instance.dts.concepts = AllConcepts
    /\ \E i, j \in 1 .. Len(instance.facts) :
          /\ PeriodEndMismatch(instance.facts[j])
          /\ LoggedOn(RuleId("0036", "1"), instance.facts[j]) # {}
          /\ instance.facts[i].name = "EntityRegistrantName"
          /\ LegalEntityOf(instance.facts[i]) = LegalEntityOf(instance.facts[j])
          /\ instance.facts[i].period.end # instance.facts[j].period.end
          /\ Logged(RuleId("0033", "2")) = {}

====
